---------------------------- MODULE Spec2Model ----------------------------
(***************************************************************************)
(* A model of the UTR year-in-review generator: the score decoder          *)
(* (parseScoresFromRawText), the match normalizer (fixMatchData), the      *)
(* statistics aggregator (generateStats) and the stored-review recompute   *)
(* (recomputeStats).                                                       *)
(*                                                                         *)
(* A set string such as "6-3", "7-6(7-3)", "1-0(10-6)" or "10-6" is the    *)
(* record [a, b, p]: the text `${a}-${b}` followed, when p = <<x, y>>, by  *)
(* `(${x}-${y})`.  Numbers are printed by template literals in canonical   *)
(* decimal form, so a regular expression over the text is a predicate over *)
(* the record (for instance /^[01]-[01]$/ is a \in {0,1}, b \in {0,1},     *)
(* p = <<>>).                                                              *)
(***************************************************************************)
EXTENDS Integers, Sequences, FiniteSets, TLC

VARIABLES
  \* parseScoresFromRawText
  userDigits, oppDigits, i, sets, userSetsWon, oppSetsWon, won, pc,
  \* fixMatchData: the scraped match m, the object returned for it
  m, fixedMatch, fpc,
  \* generateStats(matches, type) after folding the first "folded" matches; recomputeStats
  matches, type, folded, stats, currentWinStreak, currentLossStreak, spc,
  \* the callout ranking over a per-opponent table
  board, rpc,
  \* the Lambda handler: the DynamoDB item of the profile and year, whether an
  \* older completed item of the profile exists, each POST request's
  \* position and response, and the request whose PutCommand created the
  \* pending item (0 when none of these requests did)
  item, legacyItem, hpc, response, pendingBy

decVars == <<userDigits, oppDigits, i, sets, userSetsWon, oppSetsWon, won, pc>>
fixVars == <<m, fixedMatch, fpc>>
statVars == <<matches, type, folded, stats, currentWinStreak, currentLossStreak, spc>>
rankVars == <<board, rpc>>
lambdaVars == <<item, legacyItem, hpc, response, pendingBy>>
vars == <<decVars, fixVars, statVars, rankVars, lambdaVars>>
\* What each component leaves alone.
notDec == <<fixVars, statVars, rankVars, lambdaVars>>
notFix == <<decVars, statVars, rankVars, lambdaVars>>
notStats == <<decVars, fixVars, rankVars, lambdaVars>>
notRank == <<decVars, fixVars, statVars, lambdaVars>>
notLambda == <<decVars, fixVars, statVars, rankVars>>

\* JavaScript's null (parseScoresFromRawText's "won: null") and undefined.
Null == "null"
Undefined == "undefined"
\* JavaScript's true and false, where a value may also be null or undefined.
True == "true"
False == "false"
JsBool(b) == IF b THEN True ELSE False

----------------------------------------------------------------------------
(* Bounds of the model *)

\* Longest digit string enumerated for each player (the documented examples
\* of the source are added to the enumeration whatever their length).
MaxLen == 3

\* One digit of each class the decoder distinguishes: 0, 1, 2..4, 5, 6, 7, 8..9.
Digits == {0, 1, 3, 5, 6, 7, 9}

----------------------------------------------------------------------------
(* Helpers for JavaScript's arrays and numbers *)

\* arr.slice(k) with a 0-based k.
Slice(arr, k) == IF k >= Len(arr) THEN <<>> ELSE SubSeq(arr, k + 1, Len(arr))

\* arr[k] with a 0-based k (the code guards every index it reads).
At(arr, k) == arr[k + 1]

\* parseInt(arr.join("")) || 0 for an array of digits.
RECURSIVE ParseIntOr0(_)
ParseIntOr0(arr) ==
  IF arr = <<>> THEN 0
  ELSE 10 * ParseIntOr0(SubSeq(arr, 1, Len(arr) - 1)) + arr[Len(arr)]

\* `${a}-${b}`
SetStr(a, b) == [a |-> a, b |-> b, p |-> <<>>]
\* `${a}-${b}(${x}-${y})`
SetStrParen(a, b, x, y) == [a |-> a, b |-> b, p |-> <<x, y>>]

----------------------------------------------------------------------------
(* parseScoresFromRawText: the scan over the two digit arrays.  A decoder  *)
(* state d is [i, sets, userSetsWon, oppSetsWon, brk]; each operator below *)
(* is one branch of the body of the while loop.                            *)

DecStart == [i |-> 0, sets |-> <<>>, userSetsWon |-> 0, oppSetsWon |-> 0, brk |-> FALSE]

LoopCond(u, o, d) == d.i < Len(u) /\ d.i < Len(o)

IsTiebreakPair(my, opp) == (my = 7 /\ opp = 6) \/ (my = 6 /\ opp = 7)

IsSuperTiebreakIndicator(my, opp) == (my = 0 /\ opp = 1) \/ (my = 1 /\ opp = 0)

IsValidSet(my, opp) ==
  \/ (my = 6 /\ opp <= 4)
  \/ (opp = 6 /\ my <= 4)
  \/ (my = 7 /\ opp = 5)
  \/ (opp = 7 /\ my = 5)
  \/ (my = 7 /\ opp = 6)
  \/ (opp = 7 /\ my = 6)
  \/ (my <= 6 /\ opp <= 6 /\ (my # 0 \/ opp # 0))

IsRegularSet(my, opp) ==
  my >= 0 /\ my <= 7 /\ opp >= 0 /\ opp <= 7 /\ IsValidSet(my, opp)

\* sets.push(s); if (a > b) userSetsWon++; else oppSetsWon++;  (then i += step)
PushDecided(d, s, userWins, step) ==
  [d EXCEPT !.sets = Append(@, s),
            !.userSetsWon = IF userWins THEN @ + 1 ELSE @,
            !.oppSetsWon = IF userWins THEN @ ELSE @ + 1,
            !.i = @ + step]

\* Mutant: the sub-score is consumed only when a further valid pair follows it.
TiebreakBranchNeedsFollowingPair(u, o, d) ==
  LET my == At(u, d.i)
      opp == At(o, d.i)
  IN IF /\ d.i + 2 < Len(u) /\ d.i + 2 < Len(o)
        /\ At(u, d.i + 1) <= 7 /\ At(o, d.i + 1) <= 7
        /\ At(u, d.i + 2) <= 7 /\ At(o, d.i + 2) <= 7
     THEN PushDecided(d, SetStrParen(my, opp, At(u, d.i + 1), At(o, d.i + 1)), my > opp, 2)
     ELSE PushDecided(d, SetStr(my, opp), my > opp, 1)

\* The tiebreak set without its sub-score, whatever follows.
TiebreakBranchBare(u, o, d) ==
  PushDecided(d, SetStr(At(u, d.i), At(o, d.i)), At(u, d.i) > At(o, d.i), 1)

TiebreakBranch(u, o, d) ==
  LET my == At(u, d.i)
      opp == At(o, d.i)
  IN IF d.i + 1 < Len(u) /\ d.i + 1 < Len(o)
     THEN LET nextMy == At(u, d.i + 1)
              nextOpp == At(o, d.i + 1)
          IN IF nextMy >= 0 /\ nextMy <= 7 /\ nextOpp >= 0 /\ nextOpp <= 7
             THEN \* with or without a valid pair at i + 2 the code pushes the same
                  PushDecided(d, SetStrParen(my, opp, nextMy, nextOpp), my > opp, 2)
             ELSE PushDecided(d, SetStr(my, opp), my > opp, 1)
     ELSE PushDecided(d, SetStr(my, opp), my > opp, 1)

\* The scores the super-tiebreak branch forms from the digits after the
\* indicator: <<stbUser, stbOpp>>, or <<0, 0>> when it forms none.
SuperTiebreakScores(u, o, k) ==
  LET nextUser == IF k + 1 < Len(u) THEN At(u, k + 1) ELSE -1
      nextOpp == IF k + 1 < Len(o) THEN At(o, k + 1) ELSE -1
      skip == nextUser = 1 /\ nextOpp = 1 /\ k + 2 < Len(u) /\ k + 2 < Len(o)
      remU == IF skip THEN Slice(u, k + 2) ELSE Slice(u, k + 1)
      remO == IF skip THEN Slice(o, k + 2) ELSE Slice(o, k + 1)
      \* "0-11" followed by "3-0"
      special ==
        IF nextUser = 1 /\ nextOpp = 1 /\ remO[1] = 0
        THEN <<10, remU[1]>> ELSE <<0, 0>>
      \* Strategy 1
      strategy1 ==
        IF Len(remO) >= 2
        THEN LET oppFirstTwo == ParseIntOr0(SubSeq(remO, 1, 2))
                 userSingle == remU[Len(remU)]
             IN IF oppFirstTwo >= 10 THEN <<userSingle, oppFirstTwo>>
                ELSE IF Len(remU) >= 2
                     THEN LET userFirstTwo == ParseIntOr0(SubSeq(remU, 1, 2))
                              oppSingle == remO[Len(remO)]
                          IN IF userFirstTwo >= 10
                             THEN <<userFirstTwo, oppSingle>> ELSE special
                     ELSE special
        ELSE IF Len(remO) = 1 /\ Len(remU) = 1
             THEN IF nextUser = 1 /\ nextOpp = 1 /\ remO[1] = 0 /\ remU[1] > 0
                  THEN <<remU[1], 10>> ELSE special
             ELSE special
      \* Strategy 2
      strategy2 ==
        IF strategy1[1] < 10 /\ strategy1[2] < 10
        THEN <<ParseIntOr0(remU), ParseIntOr0(remO)>> ELSE strategy1
  IN IF Len(remU) > 0 /\ Len(remO) > 0
     THEN IF special[1] < 10 /\ special[2] < 10 THEN strategy2 ELSE special
     ELSE <<0, 0>>

\* Mutant: the winner is read off the indicator and the score is dropped.
SuperTiebreakBranchScoreless(u, o, d) ==
  [(IF At(u, d.i) = 1
    THEN PushDecided(d, SetStr(1, 0), TRUE, 0)
    ELSE PushDecided(d, SetStr(0, 1), FALSE, 0)) EXCEPT !.brk = TRUE]

\* The indicator read as a set, the loop going on with the next pair.
SuperTiebreakBranchGoesOn(u, o, d) ==
  IF At(u, d.i) = 1
  THEN PushDecided(d, SetStr(1, 0), TRUE, 1)
  ELSE PushDecided(d, SetStr(0, 1), FALSE, 1)

SuperTiebreakBranch(u, o, d) ==
  LET my == At(u, d.i)
      sc == SuperTiebreakScores(u, o, d.i)
      stbUser == sc[1]
      stbOpp == sc[2]
      out ==
        IF stbUser >= 10 \/ stbOpp >= 10
        THEN IF stbUser > stbOpp
             THEN PushDecided(d, SetStrParen(1, 0, stbUser, stbOpp), TRUE, 0)
             ELSE PushDecided(d, SetStrParen(0, 1, stbUser, stbOpp), FALSE, 0)
        ELSE IF my = 1
             THEN PushDecided(d, SetStr(1, 0), TRUE, 0)
             ELSE PushDecided(d, SetStr(0, 1), FALSE, 0)
  IN [out EXCEPT !.brk = TRUE]

\* Mutant: the regular branch without its "i++".
RegularBranchStays(u, o, d) ==
  [d EXCEPT !.sets = Append(@, SetStr(At(u, d.i), At(o, d.i))),
            !.userSetsWon = IF At(u, d.i) > At(o, d.i) THEN @ + 1 ELSE @,
            !.oppSetsWon = IF At(o, d.i) > At(u, d.i) THEN @ + 1 ELSE @]

RegularBranch(u, o, d) ==
  LET my == At(u, d.i)
      opp == At(o, d.i)
  IN [d EXCEPT !.sets = Append(@, SetStr(my, opp)),
               !.userSetsWon = IF my > opp THEN @ + 1 ELSE @,
               !.oppSetsWon = IF opp > my THEN @ + 1 ELSE @,
               !.i = @ + 1]

\* Whether the un-indicated scores make a super tiebreak the code accepts.
FallbackAccepts(stbUser, stbOpp) ==
  (stbUser >= 10 \/ stbOpp >= 10) /\ stbUser # stbOpp

FallbackBranch(u, o, d) ==
  LET stbUser == ParseIntOr0(Slice(u, d.i))
      stbOpp == ParseIntOr0(Slice(o, d.i))
      out ==
        IF FallbackAccepts(stbUser, stbOpp)
        THEN PushDecided(d, SetStr(stbUser, stbOpp), stbUser > stbOpp, 0)
        ELSE d
  IN [out EXCEPT !.brk = TRUE]

\* One iteration of the while loop.
DecStep(u, o, d) ==
  LET my == At(u, d.i)
      opp == At(o, d.i)
  IN IF IsTiebreakPair(my, opp) THEN TiebreakBranch(u, o, d)
     ELSE IF IsSuperTiebreakIndicator(my, opp) THEN SuperTiebreakBranch(u, o, d)
     ELSE IF IsRegularSet(my, opp) THEN RegularBranch(u, o, d)
     ELSE FallbackBranch(u, o, d)

\* The value of "won" of the object returned after the loop.
ReturnedWon(d) == JsBool(d.userSetsWon > d.oppSetsWon)

RECURSIVE DecRun(_, _, _)
DecRun(u, o, d) ==
  IF ~d.brk /\ LoopCond(u, o, d) THEN DecRun(u, o, DecStep(u, o, d)) ELSE d

\* parseScoresFromRawText once the two score strings are isolated (an empty
\* sequence stands for a score string the raw text does not have).
ParseScores(u, o) ==
  IF u # <<>> /\ o # <<>>
  THEN LET d == DecRun(u, o, DecStart)
       IN [sets |-> d.sets, won |-> ReturnedWon(d)]
  ELSE [sets |-> <<>>, won |-> Null]

----------------------------------------------------------------------------
(* The decoder as a state machine: one action per branch of the loop body *)

RECURSIVE StringsUpTo(_)
StringsUpTo(n) ==
  IF n = 0 THEN {<<>>}
  ELSE LET shorter == StringsUpTo(n - 1)
       IN shorter \cup {Append(s, c) : s \in {t \in shorter : Len(t) = n - 1}, c \in Digits}

\* The score pairs the comments of the source give as examples.
DocumentedExamples ==
  { << <<6, 6>>, <<4, 0>> >>,
    << <<6, 7, 7>>, <<3, 6, 3>> >>,
    << <<5, 6, 1, 1, 0>>, <<7, 1, 0, 6>> >>,
    << <<6, 2, 4>>, <<7, 7, 6>> >>,
    << <<6, 4, 0, 3>>, <<3, 6, 1, 1, 0>> >>,
    << <<7, 7, 2, 0, 4>>, <<6, 1, 6, 1, 1, 0>> >> }

\* The raw text yields both score strings or neither.
ScorePairs ==
  LET found == StringsUpTo(MaxLen) \ {<<>>}
  IN (found \X found) \cup {<< <<>>, <<>> >>} \cup DocumentedExamples

DecState == [i |-> i, sets |-> sets, userSetsWon |-> userSetsWon,
             oppSetsWon |-> oppSetsWon, brk |-> pc = "break"]

DecAssign(d) ==
  /\ i' = d.i
  /\ sets' = d.sets
  /\ userSetsWon' = d.userSetsWon
  /\ oppSetsWon' = d.oppSetsWon
  /\ pc' = IF d.brk THEN "break" ELSE "loop"
  /\ UNCHANGED <<userDigits, oppDigits, won, notDec>>

InLoop == pc = "loop" /\ LoopCond(userDigits, oppDigits, DecState)

DecInit ==
  /\ \E pair \in ScorePairs : userDigits = pair[1] /\ oppDigits = pair[2]
  /\ i = 0
  /\ sets = <<>>
  /\ userSetsWon = 0
  /\ oppSetsWon = 0
  /\ won = Null
  /\ pc = "entry"

\* Longest digit string of the runs checked to their end.
RunMaxLen == 2

RunScorePairs ==
  LET found == StringsUpTo(RunMaxLen) \ {<<>>}
  IN (found \X found) \cup {<< <<>>, <<>> >>} \cup DocumentedExamples

DecRunsInit ==
  /\ \E pair \in RunScorePairs : userDigits = pair[1] /\ oppDigits = pair[2]
  /\ i = 0
  /\ sets = <<>>
  /\ userSetsWon = 0
  /\ oppSetsWon = 0
  /\ won = Null
  /\ pc = "entry"

\* if (userScoreStr && oppScoreStr) { ... }
Enter ==
  /\ pc = "entry"
  /\ userDigits # <<>> /\ oppDigits # <<>>
  /\ pc' = "loop"
  /\ UNCHANGED <<userDigits, oppDigits, i, sets, userSetsWon, oppSetsWon, won, notDec>>

\* return { sets: [], won: null };
ReturnNull ==
  /\ pc = "entry"
  /\ ~(userDigits # <<>> /\ oppDigits # <<>>)
  /\ pc' = "returned"
  /\ won' = Null
  /\ UNCHANGED <<userDigits, oppDigits, i, sets, userSetsWon, oppSetsWon, notDec>>

TiebreakSet ==
  /\ InLoop
  /\ IsTiebreakPair(At(userDigits, i), At(oppDigits, i))
  /\ DecAssign(TiebreakBranch(userDigits, oppDigits, DecState))

SuperTiebreak ==
  /\ InLoop
  /\ ~IsTiebreakPair(At(userDigits, i), At(oppDigits, i))
  /\ IsSuperTiebreakIndicator(At(userDigits, i), At(oppDigits, i))
  /\ DecAssign(SuperTiebreakBranch(userDigits, oppDigits, DecState))

RegularSet ==
  /\ InLoop
  /\ ~IsTiebreakPair(At(userDigits, i), At(oppDigits, i))
  /\ ~IsSuperTiebreakIndicator(At(userDigits, i), At(oppDigits, i))
  /\ IsRegularSet(At(userDigits, i), At(oppDigits, i))
  /\ DecAssign(RegularBranch(userDigits, oppDigits, DecState))

Fallback ==
  /\ InLoop
  /\ ~IsTiebreakPair(At(userDigits, i), At(oppDigits, i))
  /\ ~IsSuperTiebreakIndicator(At(userDigits, i), At(oppDigits, i))
  /\ ~IsRegularSet(At(userDigits, i), At(oppDigits, i))
  /\ DecAssign(FallbackBranch(userDigits, oppDigits, DecState))

\* return { sets, won: userSetsWon > oppSetsWon };
ReturnResult ==
  /\ pc = "break" \/ (pc = "loop" /\ ~LoopCond(userDigits, oppDigits, DecState))
  /\ pc' = "returned"
  /\ won' = ReturnedWon(DecState)
  /\ UNCHANGED <<userDigits, oppDigits, i, sets, userSetsWon, oppSetsWon, notDec>>

DecNext ==
  \/ Enter
  \/ ReturnNull
  \/ TiebreakSet
  \/ SuperTiebreak
  \/ RegularSet
  \/ Fallback
  \/ ReturnResult

\* The decoder's variables while another component runs.
DecIdle ==
  /\ userDigits = <<>> /\ oppDigits = <<>> /\ i = 0 /\ sets = <<>>
  /\ userSetsWon = 0 /\ oppSetsWon = 0 /\ won = Null /\ pc = "idle"

----------------------------------------------------------------------------
(* fixMatchData.  A scraped match mm is [scores, sets, won, walkover,      *)
(* type]: scores are the two digit strings parseScoresFromRawText finds in *)
(* mm.rawText (empty when it finds none), sets the scraper's own set list, *)
(* won the scraper's result (Undefined when the scraper set none).         *)

\* sets[0].match(/^\d{2,}-\d{2,}$/)
LooksConcatenated(s) == s.a >= 10 /\ s.b >= 10 /\ s.p = <<>>

\* The set list fixMatchData keeps: parsed again for doubles, for a first
\* set like "66-40", and for an empty list.
ChosenSets(mm, parsedSets) ==
  IF \/ mm.type = "doubles"
     \/ (Len(mm.sets) > 0 /\ LooksConcatenated(mm.sets[1]))
     \/ Len(mm.sets) = 0
  THEN parsedSets ELSE mm.sets

\* The callback of sets.some(...) computing hasSuperTiebreak.
IsSuperTiebreakString(s, nSets) ==
  \/ (s.a \in {0, 1} /\ s.b \in {0, 1} /\ s.p # <<>>)
  \/ s.a >= 10 \/ s.b >= 10
  \/ (((s.a = 1 /\ s.b = 0) \/ (s.a = 0 /\ s.b = 1)) /\ nSets >= 3)

HasSuperTiebreak(ss) ==
  \E k \in 1..Len(ss) : IsSuperTiebreakString(ss[k], Len(ss))

\* The callback of sets.forEach(...) counting mySets and oppSets: +1 to the
\* first component, to the second, or to neither.
SetWinner(s, hasSuperTiebreak) ==
  IF hasSuperTiebreak /\ s.a = 1 /\ s.b = 0 THEN <<1, 0>>
  ELSE IF hasSuperTiebreak /\ s.a = 0 /\ s.b = 1 THEN <<0, 1>>
  ELSE IF s.a > s.b THEN <<1, 0>>
  ELSE IF s.b > s.a THEN <<0, 1>>
  ELSE <<0, 0>>

RECURSIVE CountSets(_, _)
CountSets(ss, hasSuperTiebreak) ==
  IF ss = <<>> THEN <<0, 0>>
  ELSE LET rest == CountSets(Tail(ss), hasSuperTiebreak)
           w == SetWinner(Head(ss), hasSuperTiebreak)
       IN <<rest[1] + w[1], rest[2] + w[2]>>

\* "let won = mySets > oppSets" and the two fallbacks that follow it.
WonFromSets(mySets, oppSets, hint, parsedWon) ==
  IF mySets = 0 /\ oppSets = 0 /\ hint # Undefined THEN hint
  ELSE IF mySets = 0 /\ oppSets = 0 /\ parsedWon # Null THEN parsedWon
  ELSE JsBool(mySets > oppSets)

\* won = m.won !== undefined ? m.won : true
WalkoverWon(hint) == IF hint # Undefined THEN hint ELSE True

\* The object the callback returns, given the decoder's result, the set list
\* kept and the count <<mySets, oppSets>> over it.
FixResult(mm, parsed, ss, cnt) ==
  [sets |-> ss,
   won |-> IF mm.walkover THEN WalkoverWon(mm.won)
           ELSE WonFromSets(cnt[1], cnt[2], mm.won, parsed.won),
   isWalkover |-> mm.walkover]

FixWithSets(mm, parsed, ss) ==
  FixResult(mm, parsed, ss, CountSets(ss, HasSuperTiebreak(ss)))

FixWithParsed(mm, parsed) ==
  FixWithSets(mm, parsed, ChosenSets(mm, parsed.sets))

FixOne(mm) == FixWithParsed(mm, ParseScores(mm.scores[1], mm.scores[2]))

\* Bounds of the normalizer's inputs.
FixMaxLen == 2
FixDigits == {0, 3, 6, 9}

RECURSIVE FixStrings(_)
FixStrings(n) ==
  IF n = 0 THEN {<<>>}
  ELSE LET shorter == FixStrings(n - 1)
       IN shorter \cup {Append(s, c) : s \in {t \in shorter : Len(t) = n - 1}, c \in FixDigits}

\* Set lists as the scraper writes them (`${my}-${opp}`, no parentheses).
ScrapedSetLists ==
  { <<>>,
    <<SetStr(6, 4), SetStr(6, 3)>>,
    <<SetStr(3, 6), SetStr(6, 3), SetStr(10, 8)>>,
    <<SetStr(6, 4), SetStr(4, 6), SetStr(0, 1)>>,
    <<SetStr(3, 3)>>,
    <<SetStr(66, 40)>> }

FixScorePairs ==
  LET found == FixStrings(FixMaxLen) \ {<<>>}
  IN (found \X found) \cup {<< <<>>, <<>> >>}

ScrapedMatches ==
  [scores : FixScorePairs,
   sets : ScrapedSetLists,
   won : {True, False, Undefined},
   walkover : BOOLEAN,
   type : {"singles", "doubles"}]

NoMatch == [sets |-> <<>>, won |-> Null, isWalkover |-> FALSE]

FixInit ==
  /\ m \in ScrapedMatches
  /\ fixedMatch = NoMatch
  /\ fpc = "scraped"

FixIdle ==
  /\ m = [scores |-> <<<<>>, <<>>>>, sets |-> <<>>, won |-> Undefined,
          walkover |-> FALSE, type |-> "singles"]
  /\ fixedMatch = NoMatch
  /\ fpc = "idle"

\* The callback of matches.map(...) in fixMatchData.
FixMatch ==
  /\ fpc = "scraped"
  /\ fixedMatch' = FixOne(m)
  /\ fpc' = "fixed"
  /\ UNCHANGED <<m, notFix>>

FixNext == FixMatch

----------------------------------------------------------------------------
(* generateStats.  A match mt handed to generateStats is [date, opponent,  *)
(* opponentId, names, myUtr, opponentUtr, won, isWalkover, sets]: names    *)
(* are the full names found in mt.rawText (read for doubles only), myUtr   *)
(* and opponentUtr the values of "m.myUtr || m.myUtrBefore || 0" and       *)
(* "m.opponentUtr || m.opponentUtrBefore || 0" in hundredths.  A date is   *)
(* [iso, month, head]: iso when the text is YYYY-MM-DD, month its month,   *)
(* head the first three characters of any other text.  An object of        *)
(* JavaScript that may be null is NullObj when it is null.  A table        *)
(* (stats.opponents, stats.teams, stats.partners, monthlyStats) is the     *)
(* sequence of its entries in insertion order, the order of Object.entries *)
(* and Object.values, each entry carrying its key in "name".               *)

NullObj == [null |-> TRUE]

Abs(x) == IF x < 0 THEN -x ELSE x

\* Math.round((n / d) * 100) for d > 0 (exact for the totals of the model).
RoundPct(n, d) == (200 * n + d) \div (2 * d)

\* arr.sort(compare) for a consistent comparator, given as the table
\* cmp[x][y] = compare(seq[x], seq[y]): the sort is stable, so an element
\* comes after those that compare smaller and after the earlier ones that
\* compare equal.
SortedBy(seq, cmp) ==
  LET n == Len(seq)
      Before(x, y) == cmp[x][y] < 0 \/ (cmp[x][y] = 0 /\ x < y)
      Rank(y) == 1 + Cardinality({x \in 1..n : x # y /\ Before(x, y)})
  IN [r \in 1..n |-> seq[CHOOSE y \in 1..n : Rank(y) = r]]

HasKey(tbl, name) == \E j \in 1..Len(tbl) : tbl[j].name = name

IndexOf(tbl, name) == CHOOSE j \in 1..Len(tbl) : tbl[j].name = name

InitialStats ==
  [record |-> [wins |-> 0, losses |-> 0, walkovers |-> 0, winPct |-> 0],
   vsHigherRated |-> [wins |-> 0, losses |-> 0],
   vsLowerRated |-> [wins |-> 0, losses |-> 0],
   bagels |-> [given |-> 0, received |-> 0],
   breadsticks |-> [given |-> 0, received |-> 0],
   tiebreaks |-> [won |-> 0, lost |-> 0],
   superTiebreaks |-> [won |-> 0, lost |-> 0],
   setsRecord |-> [won |-> 0, lost |-> 0],
   gamesRecord |-> [won |-> 0, lost |-> 0],
   decidingSets |-> [won |-> 0, lost |-> 0],
   gamesDifferential |-> [wonWithFewer |-> 0, lostWithMore |-> 0],
   opponents |-> <<>>,
   partners |-> <<>>,
   teams |-> <<>>,
   longestWinStreak |-> 0,
   longestLossStreak |-> 0,
   matches |-> <<>>,
   nemesis |-> NullObj,
   dominatedOpponent |-> NullObj,
   closestRival |-> NullObj,
   mostFrequentPartner |-> NullObj]

\* The state of the forEach over the matches: stats and the two running
\* streaks.
FoldStart == [stats |-> InitialStats, currentWinStreak |-> 0, currentLossStreak |-> 0]

\* A walkover that ends the running streaks.
CountWalkoverEndsStreaks(g) ==
  [g EXCEPT !.stats.record.walkovers = @ + 1,
            !.currentWinStreak = 0,
            !.currentLossStreak = 0]

\* if (m.isWalkover) { stats.record.walkovers++; return; }
CountWalkover(g) == [g EXCEPT !.stats.record.walkovers = @ + 1]

\* "Record (excluding walkovers)"
CountRecord(g, res) ==
  IF res = True
  THEN [g EXCEPT !.stats.record.wins = @ + 1,
                 !.currentWinStreak = @ + 1,
                 !.currentLossStreak = 0,
                 !.stats.longestWinStreak =
                    IF g.currentWinStreak + 1 > @ THEN g.currentWinStreak + 1 ELSE @]
  ELSE IF res = False
  THEN [g EXCEPT !.stats.record.losses = @ + 1,
                 !.currentLossStreak = @ + 1,
                 !.currentWinStreak = 0,
                 !.stats.longestLossStreak =
                    IF g.currentLossStreak + 1 > @ THEN g.currentLossStreak + 1 ELSE @]
  ELSE g

\* Mutant: an opponent of the same rating is neither higher nor lower rated.
CountRatedApart(g, mt) ==
  IF mt.opponentUtr = mt.myUtr THEN g
  ELSE IF mt.won = True
  THEN IF mt.opponentUtr > mt.myUtr
       THEN [g EXCEPT !.stats.vsHigherRated.wins = @ + 1]
       ELSE [g EXCEPT !.stats.vsLowerRated.wins = @ + 1]
  ELSE IF mt.won = False
  THEN IF mt.opponentUtr > mt.myUtr
       THEN [g EXCEPT !.stats.vsHigherRated.losses = @ + 1]
       ELSE [g EXCEPT !.stats.vsLowerRated.losses = @ + 1]
  ELSE g

\* "vs Higher/Lower rated"
CountRated(g, mt) ==
  IF mt.won = True
  THEN IF mt.opponentUtr > mt.myUtr
       THEN [g EXCEPT !.stats.vsHigherRated.wins = @ + 1]
       ELSE [g EXCEPT !.stats.vsLowerRated.wins = @ + 1]
  ELSE IF mt.won = False
  THEN IF mt.opponentUtr > mt.myUtr
       THEN [g EXCEPT !.stats.vsHigherRated.losses = @ + 1]
       ELSE [g EXCEPT !.stats.vsLowerRated.losses = @ + 1]
  ELSE g

\* The partner: the first of the first two names that is not the player's
\* (a name is one token of the model, so it includes the player's first and
\* last name exactly when it is the player's name).  "" when there is none.
PartnerOf(mt, ty, playerName) ==
  IF ty = "doubles" /\ Len(mt.names) >= 2
  THEN IF mt.names[1] # playerName THEN mt.names[1]
       ELSE IF mt.names[2] # playerName THEN mt.names[2]
       ELSE ""
  ELSE ""

\* The opposing team: the third and fourth names, sorted and joined, which
\* identifies their unordered pair; {} when there is none.
TeamOf(mt, ty) ==
  IF ty = "doubles" /\ Len(mt.names) >= 4
  THEN {mt.names[3], mt.names[4]}
  ELSE {}

NewTeam(name) ==
  [name |-> name, played |-> 0, wins |-> 0, losses |-> 0, gamesWon |-> 0,
   gamesLost |-> 0, setsWon |-> 0, setsLost |-> 0]

NewOpponent(name, utr, id) ==
  [name |-> name, played |-> 0, wins |-> 0, losses |-> 0, gamesWon |-> 0,
   gamesLost |-> 0, setsWon |-> 0, setsLost |-> 0, utr |-> utr, id |-> id]

\* tbl[name].played++ and its wins++ or losses++, after creating the entry
\* when the table has none for the name.
TrackResult(tbl, fresh, res) ==
  LET t == IF HasKey(tbl, fresh.name) THEN tbl ELSE Append(tbl, fresh)
      j == IndexOf(t, fresh.name)
  IN [t EXCEPT ![j].played = @ + 1,
               ![j].wins = IF res = True THEN @ + 1 ELSE @,
               ![j].losses = IF res = False THEN @ + 1 ELSE @]

\* "Track opponents/teams with game counts"
TrackOpponents(g, mt, ty, team, partner) ==
  IF ty = "doubles" /\ team # {}
  THEN [g EXCEPT !.stats.teams = TrackResult(@, NewTeam(team), mt.won),
                 !.stats.partners =
                    IF partner # "" THEN TrackResult(@, NewTeam(partner), mt.won) ELSE @]
  ELSE IF mt.opponent # ""
  THEN [g EXCEPT !.stats.opponents =
                    TrackResult(@, NewOpponent(mt.opponent, mt.opponentUtr, mt.opponentId), mt.won)]
  ELSE g

\* What the callback of m.sets.forEach accumulates over the sets of a match.
NoSets ==
  [setsWon |-> 0, setsLost |-> 0, matchGamesWon |-> 0, matchGamesLost |-> 0,
   hasSuperTiebreak |-> FALSE,
   superTiebreaksWon |-> 0, superTiebreaksLost |-> 0,
   tiebreaksWon |-> 0, tiebreaksLost |-> 0,
   bagelsGiven |-> 0, bagelsReceived |-> 0,
   breadsticksGiven |-> 0, breadsticksReceived |-> 0]

\* /^([01])-([01])\((\d+)-(\d+)\)$/
IsScoredSuperTiebreak(s) == s.a \in {0, 1} /\ s.b \in {0, 1} /\ s.p # <<>>

\* /^[01]-[01]$/
IsBareSuperTiebreak(s) == s.a \in {0, 1} /\ s.b \in {0, 1} /\ s.p = <<>>

\* /^([67])-([67])(?:\((\d+)-(\d+)\))?$/
IsTiebreakFormat(s) == s.a \in {6, 7} /\ s.b \in {6, 7}

SuperTiebreakSet(t, iWon) ==
  IF iWon
  THEN [t EXCEPT !.hasSuperTiebreak = TRUE, !.superTiebreaksWon = @ + 1, !.setsWon = @ + 1]
  ELSE [t EXCEPT !.hasSuperTiebreak = TRUE, !.superTiebreaksLost = @ + 1, !.setsLost = @ + 1]

\* One call of the callback of m.sets.forEach.
AnalyseSet(t, s) ==
  IF IsScoredSuperTiebreak(s) THEN SuperTiebreakSet(t, s.a = 1)
  ELSE IF IsBareSuperTiebreak(s) THEN SuperTiebreakSet(t, s.a = 1)
  ELSE IF IsTiebreakFormat(s)
  THEN [t EXCEPT !.tiebreaksWon = IF s.a = 7 /\ s.b = 6 THEN @ + 1 ELSE @,
                 !.tiebreaksLost = IF s.a = 6 /\ s.b = 7 THEN @ + 1 ELSE @,
                 !.matchGamesWon = @ + s.a,
                 !.matchGamesLost = @ + s.b,
                 !.setsWon = IF s.a > s.b THEN @ + 1 ELSE @,
                 !.setsLost = IF s.a > s.b THEN @ ELSE @ + 1]
  ELSE IF s.a >= 10 \/ s.b >= 10 THEN SuperTiebreakSet(t, s.a > s.b)
  ELSE [t EXCEPT !.matchGamesWon = @ + s.a,
                 !.matchGamesLost = @ + s.b,
                 !.setsWon = IF s.a > s.b THEN @ + 1 ELSE @,
                 !.setsLost = IF s.b > s.a THEN @ + 1 ELSE @,
                 !.bagelsGiven = IF s.a = 6 /\ s.b = 0 THEN @ + 1 ELSE @,
                 !.bagelsReceived = IF s.a = 0 /\ s.b = 6 THEN @ + 1 ELSE @,
                 !.breadsticksGiven = IF s.a = 6 /\ s.b = 1 THEN @ + 1 ELSE @,
                 !.breadsticksReceived = IF s.a = 1 /\ s.b = 6 THEN @ + 1 ELSE @]

RECURSIVE AnalyseSets(_, _)
AnalyseSets(t, ss) ==
  IF ss = <<>> THEN t ELSE AnalyseSets(AnalyseSet(t, Head(ss)), Tail(ss))

\* tbl[name].gamesWon += ..., when the table has the name.
AddGames(tbl, name, t) ==
  IF HasKey(tbl, name)
  THEN [tbl EXCEPT ![IndexOf(tbl, name)] =
          [@ EXCEPT !.gamesWon = @ + t.matchGamesWon,
                    !.gamesLost = @ + t.matchGamesLost,
                    !.setsWon = @ + t.setsWon,
                    !.setsLost = @ + t.setsLost]]
  ELSE tbl

\* "Set analysis", given the accumulation t over the sets of the match.
CountSetAnalysis(g, mt, ty, team, partner, t) ==
  LET wentToDecider == (t.setsWon >= 1 /\ t.setsLost >= 1) \/ t.hasSuperTiebreak
  IN [g EXCEPT
        !.stats.superTiebreaks = [won |-> @.won + t.superTiebreaksWon,
                                  lost |-> @.lost + t.superTiebreaksLost],
        !.stats.tiebreaks = [won |-> @.won + t.tiebreaksWon,
                             lost |-> @.lost + t.tiebreaksLost],
        !.stats.bagels = [given |-> @.given + t.bagelsGiven,
                          received |-> @.received + t.bagelsReceived],
        !.stats.breadsticks = [given |-> @.given + t.breadsticksGiven,
                               received |-> @.received + t.breadsticksReceived],
        !.stats.setsRecord = [won |-> @.won + t.setsWon, lost |-> @.lost + t.setsLost],
        !.stats.gamesRecord = [won |-> @.won + t.matchGamesWon,
                               lost |-> @.lost + t.matchGamesLost],
        !.stats.gamesDifferential =
           IF mt.won = True /\ t.matchGamesWon < t.matchGamesLost
           THEN [@ EXCEPT !.wonWithFewer = @ + 1]
           ELSE IF mt.won = False /\ t.matchGamesWon > t.matchGamesLost
           THEN [@ EXCEPT !.lostWithMore = @ + 1]
           ELSE @,
        !.stats.teams =
           IF ty = "doubles" /\ team # {} THEN AddGames(@, team, t) ELSE @,
        !.stats.partners =
           IF ty = "doubles" /\ partner # "" THEN AddGames(@, partner, t) ELSE @,
        !.stats.opponents =
           IF ty # "doubles" /\ mt.opponent # "" THEN AddGames(@, mt.opponent, t) ELSE @,
        !.stats.decidingSets =
           IF wentToDecider /\ mt.won = True THEN [@ EXCEPT !.won = @ + 1]
           ELSE IF wentToDecider /\ mt.won = False THEN [@ EXCEPT !.lost = @ + 1]
           ELSE @]

SetAnalysis(g, mt, ty, team, partner) ==
  IF Len(mt.sets) > 0
  THEN CountSetAnalysis(g, mt, ty, team, partner, AnalyseSets(NoSets, mt.sets))
  ELSE g

\* stats.matches.push({...}): the fields of the pushed object that are read
\* again.  A doubles match without a team has opponent null.
PushMatch(g, mt, ty, team, partner) ==
  [g EXCEPT !.stats.matches =
     Append(@, [date |-> mt.date,
                opponent |-> IF ty = "doubles"
                             THEN (IF team = {} THEN NullObj ELSE team)
                             ELSE IF mt.opponent # "" THEN mt.opponent ELSE "Unknown",
                opponentId |-> mt.opponentId,
                opponentUtr |-> mt.opponentUtr,
                myUtr |-> mt.myUtr,
                won |-> mt.won,
                isWalkover |-> mt.isWalkover,
                sets |-> mt.sets])]

CountWithNames(g, mt, ty, team, partner) ==
  PushMatch(
    SetAnalysis(
      TrackOpponents(CountRated(CountRecord(g, mt.won), mt), mt, ty, team, partner),
      mt, ty, team, partner),
    mt, ty, team, partner)

\* The callback of matches.forEach for a match that is not a walkover.
CountMatch(g, mt, ty, playerName) ==
  CountWithNames(g, mt, ty, TeamOf(mt, ty), PartnerOf(mt, ty, playerName))

----------------------------------------------------------------------------
(* The callouts of generateStats *)

GameDiff(e) == e.gamesWon - e.gamesLost

\* Mutant: candidates tied on net record and game differential stay in
\* table order.
NemesisCompareWithoutPlayed(a, b) ==
  LET aNet == a.losses - a.wins
      bNet == b.losses - b.wins
  IN IF aNet # bNet THEN bNet - aNet
     ELSE IF GameDiff(a) # GameDiff(b) THEN GameDiff(a) - GameDiff(b)
     ELSE 0

\* The comparator of nemesisCandidates.sort
NemesisCompare(a, b) ==
  LET aNet == a.losses - a.wins
      bNet == b.losses - b.wins
  IN IF aNet # bNet THEN bNet - aNet
     ELSE IF GameDiff(a) # GameDiff(b) THEN GameDiff(a) - GameDiff(b)
     ELSE b.played - a.played

\* The comparator of dominatedCandidates.sort
DominatedCompare(a, b) ==
  LET aNet == a.wins - a.losses
      bNet == b.wins - b.losses
  IN IF aNet # bNet THEN bNet - aNet
     ELSE IF GameDiff(a) # GameDiff(b) THEN GameDiff(b) - GameDiff(a)
     ELSE b.played - a.played

\* The sign of aGameDiffPct - bGameDiffPct, the percentages being
\* |gameDiff| / totalGames * 100, or 0 without games: two quotients of small
\* integers compare as their cross products do.
GameDiffPctCompare(a, b) ==
  LET aTotalGames == a.gamesWon + a.gamesLost
      bTotalGames == b.gamesWon + b.gamesLost
      aNum == IF aTotalGames > 0 THEN Abs(GameDiff(a)) ELSE 0
      bNum == IF bTotalGames > 0 THEN Abs(GameDiff(b)) ELSE 0
      aDen == IF aTotalGames > 0 THEN aTotalGames ELSE 1
      bDen == IF bTotalGames > 0 THEN bTotalGames ELSE 1
  IN aNum * bDen - bNum * aDen

\* The comparator of rivalCandidates.sort for singles opponents
RivalCompare(a, b) ==
  LET aDiff == Abs(a.wins - a.losses)
      bDiff == Abs(b.wins - b.losses)
  IN IF GameDiffPctCompare(a, b) # 0 THEN GameDiffPctCompare(a, b)
     ELSE IF aDiff # bDiff THEN aDiff - bDiff
     ELSE b.played - a.played

\* The comparator of rivalCandidates.sort for doubles teams
TeamRivalCompare(a, b) ==
  LET aGameDiff == Abs(GameDiff(a))
      bGameDiff == Abs(GameDiff(b))
      aDiff == Abs(a.wins - a.losses)
      bDiff == Abs(b.wins - b.losses)
  IN IF aGameDiff # bGameDiff THEN aGameDiff - bGameDiff
     ELSE IF aDiff # bDiff THEN aDiff - bDiff
     ELSE b.played - a.played

IsNemesisCandidate(o) == o.losses >= 1 /\ o.played >= 2

IsDominatedCandidate(o) == o.wins >= 1 /\ o.played >= 2

\* Mutant: an opponent met once qualifies as a rival.
IsRivalCandidateOnceMet(o) == o.played >= 1

IsRivalCandidate(o) == o.played >= 2

\* { name, record, gamesRecord, utr }
OpponentCallout(e) ==
  [name |-> e.name, record |-> <<e.wins, e.losses>>,
   gamesRecord |-> <<e.gamesWon, e.gamesLost>>, utr |-> e.utr]

\* { name, record, gamesRecord }
TeamCallout(e) ==
  [name |-> e.name, record |-> <<e.wins, e.losses>>,
   gamesRecord |-> <<e.gamesWon, e.gamesLost>>]

Nemesis(opponentList) ==
  LET list == SelectSeq(opponentList, IsNemesisCandidate)
  IN SortedBy(list, [x \in DOMAIN list |->
                      [y \in DOMAIN list |-> NemesisCompare(list[x], list[y])]])

Dominated(opponentList) ==
  LET list == SelectSeq(opponentList, IsDominatedCandidate)
  IN SortedBy(list, [x \in DOMAIN list |->
                      [y \in DOMAIN list |-> DominatedCompare(list[x], list[y])]])

ClosestRival(opponentList) ==
  LET list == SelectSeq(opponentList, IsRivalCandidate)
  IN SortedBy(list, [x \in DOMAIN list |->
                      [y \in DOMAIN list |-> RivalCompare(list[x], list[y])]])

TeamClosestRival(teamList) ==
  LET list == SelectSeq(teamList, IsRivalCandidate)
  IN SortedBy(list, [x \in DOMAIN list |->
                      [y \in DOMAIN list |-> TeamRivalCompare(list[x], list[y])]])

\* The callouts of the singles branch: nemesis, dominatedOpponent and
\* closestRival over stats.opponents, each left as it was (null) when it
\* has no candidate.
SinglesCallouts(st) ==
  LET nem == Nemesis(st.opponents)
      dom == Dominated(st.opponents)
      rival == ClosestRival(st.opponents)
  IN [st EXCEPT
        !.nemesis = IF Len(nem) > 0 THEN OpponentCallout(nem[1]) ELSE @,
        !.dominatedOpponent = IF Len(dom) > 0 THEN OpponentCallout(dom[1]) ELSE @,
        !.closestRival =
           IF Len(rival) > 0
           THEN OpponentCallout(rival[1]) @@ [gameDiff |-> GameDiff(rival[1])]
           ELSE @]

\* The comparator of partnerList.sort and of the "most frequent" sorts
PlayedCompare(a, b) == b.played - a.played

\* partnerList.sort((a, b) => b.played - a.played)
MostFrequent(list) ==
  SortedBy(list, [x \in DOMAIN list |->
                   [y \in DOMAIN list |-> PlayedCompare(list[x], list[y])]])

\* The callouts of the doubles branch, over stats.teams and stats.partners.
DoublesCallouts(st) ==
  LET nem == Nemesis(st.teams)
      dom == Dominated(st.teams)
      rival == TeamClosestRival(st.teams)
      partnerList == MostFrequent(st.partners)
  IN [st EXCEPT
        !.mostFrequentPartner =
           IF Len(partnerList) > 0
           THEN [name |-> partnerList[1].name, played |-> partnerList[1].played,
                 record |-> <<partnerList[1].wins, partnerList[1].losses>>,
                 gamesRecord |-> <<partnerList[1].gamesWon, partnerList[1].gamesLost>>]
           ELSE @,
        !.nemesis = IF Len(nem) > 0 THEN TeamCallout(nem[1]) ELSE @,
        !.dominatedOpponent = IF Len(dom) > 0 THEN TeamCallout(dom[1]) ELSE @,
        !.closestRival =
           IF Len(rival) > 0
           THEN TeamCallout(rival[1]) @@ [gameDiff |-> GameDiff(rival[1])]
           ELSE @]

\* One call of the callback of the matches.forEach computing bestWin (the
\* first component) and worstLoss (the second).
BestAndWorstStep(bw, mt) ==
  LET utrDiff == mt.opponentUtr - mt.myUtr
      entry == [opponent |-> mt.opponent, opponentUtr |-> mt.opponentUtr,
                myUtr |-> mt.myUtr, utrDiff |-> utrDiff, date |-> mt.date]
  IN IF mt.isWalkover THEN bw
     ELSE IF mt.won = True
     THEN IF bw[1] = NullObj \/ utrDiff > bw[1].utrDiff THEN <<entry, bw[2]>> ELSE bw
     ELSE IF mt.won = False
     THEN IF bw[2] = NullObj \/ utrDiff < bw[2].utrDiff THEN <<bw[1], entry>> ELSE bw
     ELSE bw

RECURSIVE BestAndWorst(_, _)
BestAndWorst(bw, ms) ==
  IF ms = <<>> THEN bw ELSE BestAndWorst(BestAndWorstStep(bw, Head(ms)), Tail(ms))

MonthNames ==
  <<"Jan", "Feb", "Mar", "Apr", "May", "Jun", "Jul", "Aug", "Sep", "Oct", "Nov", "Dec">>

\* The year the review is generated for.
TargetYear == 2025

NoDate == [iso |-> FALSE, year |-> 0, month |-> 0, head |-> ""]

\* "YYYY-MM-DD"
IsoDateIn(year, month) == [iso |-> TRUE, year |-> year, month |-> month, head |-> ""]

IsoDate(month) == IsoDateIn(TargetYear, month)

\* Any other text: head is its first three characters, letters the three
\* letters that /([A-Za-z]{3})\s*(\d{1,2})/ finds before a number ("" when
\* it finds none), year the number its first four characters spell (0 when
\* they spell none).
TextDate(head, letters, year) ==
  [iso |-> FALSE, year |-> year, month |-> 0, head |-> head, letters |-> letters]

\* monthMap[match[1]] || "01"
MonthMapOr01(letters) ==
  IF \E k \in 1..12 : MonthNames[k] = letters
  THEN CHOOSE k \in 1..12 : MonthNames[k] = letters
  ELSE 1

\* normalizeDate(m.date) || m.date
NormalizeDate(raw) ==
  IF raw = NoDate \/ raw.iso THEN raw
  ELSE IF raw.letters # "" THEN IsoDate(MonthMapOr01(raw.letters))
  ELSE raw

MonthKey(date) == IF date.iso THEN MonthNames[date.month] ELSE date.head

\* One call of the callback filling monthlyStats.
MonthlyStep(monthly, mt) ==
  IF mt.date = NoDate THEN monthly
  ELSE LET key == MonthKey(mt.date)
           t == IF HasKey(monthly, key) THEN monthly
                ELSE Append(monthly, [name |-> key, wins |-> 0, losses |-> 0])
           j == IndexOf(t, key)
       IN [t EXCEPT ![j].wins = IF mt.won = True THEN @ + 1 ELSE @,
                    ![j].losses = IF mt.won = False THEN @ + 1 ELSE @]

RECURSIVE MonthlyStats(_, _)
MonthlyStats(monthly, ms) ==
  IF ms = <<>> THEN monthly ELSE MonthlyStats(MonthlyStep(monthly, Head(ms)), Tail(ms))

WithTotals(monthly) ==
  [j \in 1..Len(monthly) |->
     [month |-> monthly[j].name, wins |-> monthly[j].wins, losses |-> monthly[j].losses,
      total |-> monthly[j].wins + monthly[j].losses,
      winPct |-> IF monthly[j].wins + monthly[j].losses > 0
                 THEN RoundPct(monthly[j].wins, monthly[j].wins + monthly[j].losses)
                 ELSE 0]]

HasMatches(mo) == mo.total > 0

\* The comparator of monthlyData.sort
MonthCompare(a, b) == b.winPct - a.winPct

MonthlyData(ms) ==
  LET list == SelectSeq(WithTotals(MonthlyStats(<<>>, ms)), HasMatches)
  IN SortedBy(list, [x \in DOMAIN list |->
                      [y \in DOMAIN list |-> MonthCompare(list[x], list[y])]])

\* The matches the comeback loop reads: at least two sets, and a first set
\* that "-" splits in two parts, which a parenthesised score prevents.
ReadsFirstSet(mt) == Len(mt.sets) >= 2 /\ mt.sets[1].p = <<>>

WonFirstSet(mt) == mt.sets[1].a > mt.sets[1].b

Comebacks(ms) ==
  Cardinality({j \in 1..Len(ms) :
                 ReadsFirstSet(ms[j]) /\ ms[j].won = True /\ ~WonFirstSet(ms[j])})

Chokes(ms) ==
  Cardinality({j \in 1..Len(ms) :
                 ReadsFirstSet(ms[j]) /\ ms[j].won = False /\ WonFirstSet(ms[j])})

\* Mutant: a season without a decided match counts as won throughout.
WinPctFullWhenEmpty(wins, total) == IF total > 0 THEN RoundPct(wins, total) ELSE 100

\* total > 0 ? Math.round((wins / total) * 100) : 0
WinPct(wins, total) == IF total > 0 THEN RoundPct(wins, total) ELSE 0

WithPercentages(st) ==
  [st EXCEPT !.record.winPct = WinPct(st.record.wins, st.record.wins + st.record.losses),
             !.gamesRecord = @ @@ [winPct |-> WinPct(@.won, @.won + @.lost)]]

WithCallouts(st, ty) ==
  IF ty = "doubles" THEN DoublesCallouts(st) ELSE SinglesCallouts(st)

\* Everything generateStats computes after the forEach, given the monthly
\* data and the pair <<bestWin, worstLoss>>.
WithSeason(st, bw, monthlyData) ==
  st @@ [bestWin |-> bw[1],
         worstLoss |-> bw[2],
         monthlyBreakdown |-> monthlyData,
         bestMonth |-> IF Len(monthlyData) > 0 THEN monthlyData[1] ELSE NullObj,
         worstMonth |-> IF Len(monthlyData) > 0 THEN monthlyData[Len(monthlyData)]
                        ELSE NullObj,
         comebacks |-> [won |-> Comebacks(st.matches), lost |-> Chokes(st.matches)]]

FinishedStats(st, ms, ty) ==
  WithSeason(WithCallouts(WithPercentages(st), ty),
             BestAndWorst(<<NullObj, NullObj>>, ms),
             MonthlyData(st.matches))

----------------------------------------------------------------------------
(* recomputeStats, on the "singles" object of a stored review *)

\* calculateGamesFromSets without its super tiebreak cases.
GamesFromSetWithSuperTiebreaks(s) == <<s.a, s.b>>

\* One set in calculateGamesFromSets: <<games for me, games for the opponent>>
GamesFromSet(s) ==
  IF IsScoredSuperTiebreak(s) \/ IsBareSuperTiebreak(s) THEN <<0, 0>>
  ELSE IF IsTiebreakFormat(s) THEN <<s.a, s.b>>
  ELSE IF s.a >= 10 \/ s.b >= 10 THEN <<0, 0>>
  ELSE <<s.a, s.b>>

RECURSIVE CalculateGamesFromSets(_)
CalculateGamesFromSets(ss) ==
  IF ss = <<>> THEN <<0, 0>>
  ELSE LET rest == CalculateGamesFromSets(Tail(ss))
           gm == GamesFromSet(Head(ss))
       IN <<gm[1] + rest[1], gm[2] + rest[2]>>

\* recalculateWonFromSets: the count of fixMatchData over the set list.
RecalculateWonFromCount(cnt) == JsBool(cnt[1] > cnt[2])

RecalculateWonFromSets(ss) ==
  IF ss = <<>> THEN Null
  ELSE RecalculateWonFromCount(CountSets(ss, HasSuperTiebreak(ss)))

\* match.won after the callback of singles.matches.forEach
CorrectedWon(mt) ==
  IF mt.isWalkover \/ mt.sets = <<>> THEN mt.won
  ELSE IF RecalculateWonFromSets(mt.sets) # Null /\ RecalculateWonFromSets(mt.sets) # mt.won
  THEN RecalculateWonFromSets(mt.sets)
  ELSE mt.won

CorrectedMatches(ms) == [j \in 1..Len(ms) |-> [ms[j] EXCEPT !.won = CorrectedWon(ms[j])]]

WonWithFewer(ms) ==
  Cardinality({j \in 1..Len(ms) :
     /\ ~ms[j].isWalkover /\ ms[j].sets # <<>> /\ ms[j].won = True
     /\ CalculateGamesFromSets(ms[j].sets)[1] < CalculateGamesFromSets(ms[j].sets)[2]})

LostWithMore(ms) ==
  Cardinality({j \in 1..Len(ms) :
     /\ ~ms[j].isWalkover /\ ms[j].sets # <<>> /\ ms[j].won = False
     /\ CalculateGamesFromSets(ms[j].sets)[1] > CalculateGamesFromSets(ms[j].sets)[2]})

\* The callouts of recomputeStats over singles.opponents, each set to null
\* when it has no candidate.
RecomputeCallouts(st) ==
  LET nem == Nemesis(st.opponents)
      dom == Dominated(st.opponents)
      rival == ClosestRival(st.opponents)
  IN [st EXCEPT
        !.nemesis = IF Len(nem) > 0 THEN OpponentCallout(nem[1]) ELSE NullObj,
        !.dominatedOpponent = IF Len(dom) > 0 THEN OpponentCallout(dom[1]) ELSE NullObj,
        !.closestRival =
           IF Len(rival) > 0
           THEN OpponentCallout(rival[1]) @@ [gameDiff |-> GameDiff(rival[1])]
           ELSE NullObj]

\* recomputeStats, given the corrected matches and <<bestWin, worstLoss>>
\* over them.
RecomputedWith(st, ms, bw) ==
  RecomputeCallouts(
    [st EXCEPT !.matches = ms,
               !.gamesDifferential = [wonWithFewer |-> WonWithFewer(ms),
                                      lostWithMore |-> LostWithMore(ms)],
               !.bestWin = bw[1],
               !.worstLoss = bw[2]])

RecomputedOver(st, ms) == RecomputedWith(st, ms, BestAndWorst(<<NullObj, NullObj>>, ms))

RecomputeStats(st) == RecomputedOver(st, CorrectedMatches(st.matches))

----------------------------------------------------------------------------
(* generateStats and recomputeStats as a state machine: the matches of a   *)
(* season come out of fixMatchData, generateStats folds them one call of   *)
(* the forEach callback at a time, and recomputeStats later rewrites the   *)
(* stored singles result.                                                  *)

\* Longest match list enumerated.
MaxMatches == 4

PlayerName == "Harper Chalat"

\* A scraped match whose sets the scraper left empty, so that fixMatchData
\* takes them, and the result, from the two digit strings of the raw text.
ScrapedFromText(my, opp) ==
  [scores |-> <<my, opp>>, sets |-> <<>>, won |-> Undefined, walkover |-> FALSE,
   type |-> "singles"]

ScrapedWalkover ==
  [scores |-> <<<<>>, <<>>>>, sets |-> <<>>, won |-> True, walkover |-> TRUE,
   type |-> "singles"]

\* A scraped match with what the scraper recorded around its result.
Scraped(mm, month, opponent, opponentId, names, myUtr, opponentUtr) ==
  [scraped |-> mm, date |-> IF month = 0 THEN IsoDateIn(TargetYear - 1, 12) ELSE IsoDate(month), opponent |-> opponent,
   opponentId |-> opponentId, names |-> names, myUtr |-> myUtr,
   opponentUtr |-> opponentUtr]

\* The scraped matches a season is drawn from.
ScrapedSeason ==
  { \* 6-4 6-3 against a higher rated opponent
    Scraped(ScrapedFromText(<<6, 6>>, <<4, 3>>), 1, "Ann", 1,
            <<"Harper Chalat", "Pat", "Ann", "Bea">>, 500, 600),
    \* 3-6 6-7, dated "Round 16"
    [Scraped(ScrapedFromText(<<3, 6>>, <<6, 7>>), 1, "Ann", 1,
             <<"Pat", "Harper Chalat", "Bea", "Ann">>, 500, 450)
       EXCEPT !.date = TextDate("Rou", "und", 0)],
    \* 3-6 6-4 1-0: won from a set down, with fewer games
    Scraped(ScrapedFromText(<<3, 6, 1>>, <<6, 4, 0>>), 2, "Bea", 2,
            <<"Harper Chalat", "Pat", "Ann", "Cy">>, 500, 500),
    \* 6-4 4-6 0-1(6-10): lost from a set up
    Scraped(ScrapedFromText(<<6, 4, 0, 6>>, <<4, 6, 1, 1, 0>>), 2, "Bea", 2,
            <<"Harper Chalat", "Quinn", "Ann", "Cy">>, 510, 0),
    \* a walkover
    Scraped(ScrapedWalkover, 3, "Cy", 3,
            <<"Harper Chalat", "Pat", "Ann", "Bea">>, 510, 520),
    \* 0-6 1-6
    Scraped(ScrapedFromText(<<0, 1>>, <<6, 6>>), 3, "Cy", 3,
            <<"Harper Chalat", "Pat">>, 510, 700),
    \* 7-6(7-3) 6-4
    Scraped(ScrapedFromText(<<7, 7, 6>>, <<6, 3, 4>>), 3, "Bea", 2,
            <<"Harper Chalat", "Quinn", "Bea", "Cy">>, 520, 480),
    \* 4-6 6-4 10-8, dated "Dec 23"
    [Scraped(ScrapedFromText(<<4, 6, 1, 0>>, <<6, 4, 8>>), 12, "Cy", 3,
             <<"Harper Chalat", "Pat", "Cy", "Bea">>, 520, 530)
       EXCEPT !.date = TextDate("Dec", "Dec", 0)],
    \* 6-0 6-7 0-1: lost with more games
    Scraped(ScrapedFromText(<<6, 6, 0>>, <<0, 7, 1>>), 4, "Ann", 1,
            <<"Harper Chalat", "Pat", "Ann", "Bea">>, 520, 540),
    \* 6-1 6-0 against another player called Ann
    Scraped(ScrapedFromText(<<6, 6>>, <<1, 0>>), 5, "Ann", 5,
            <<"Harper Chalat", "Quinn", "Ann", "Dee">>, 520, 400),
    \* 6-2 6-2 in the December before the target year (month 0)
    Scraped(ScrapedFromText(<<6, 6>>, <<2, 2>>), 0, "Dee", 4,
            <<"Harper Chalat", "Pat", "Dee", "Bea">>, 490, 480),
    \* 6-7(3-7) 6-3 6-2: won after losing the first set in a tiebreak
    Scraped(ScrapedFromText(<<6, 3, 6, 6>>, <<7, 7, 3, 2>>), 5, "Dee", 4,
            <<"Harper Chalat", "Pat", "Dee", "Bea">>, 520, 510),
    \* 1-1, the opponent retired: a set that nobody won, the result from the
    \* scraper, both ratings missing
    Scraped([ScrapedFromText(<<1>>, <<1>>) EXCEPT !.won = True], 6, "Cy", 3,
            <<"Harper Chalat", "Pat", "Cy", "Bea">>, 0, 0) }

\* The match generateStats receives for a scraped match d, given its fix f;
\* scrapedDate keeps the date text of the scraper, which the fixed match no
\* longer holds.
ReviewMatchOf(d, f) ==
  [date |-> NormalizeDate(d.date), scrapedDate |-> d.date,
   opponent |-> d.opponent, opponentId |-> d.opponentId,
   names |-> d.names, myUtr |-> d.myUtr, opponentUtr |-> d.opponentUtr,
   won |-> f.won, isWalkover |-> f.isWalkover, sets |-> f.sets]

ReviewMatch(d) == ReviewMatchOf(d, FixOne(d.scraped))

\* The matches a season is drawn from.
SeasonMatches == { ReviewMatch(d) : d \in ScrapedSeason }

RECURSIVE MatchListsUpTo(_)
MatchListsUpTo(n) ==
  IF n = 0 THEN {<<>>}
  ELSE LET shorter == MatchListsUpTo(n - 1)
       IN shorter \cup
          {Append(l, mt) : l \in {t \in shorter : Len(t) = n - 1}, mt \in SeasonMatches}

\* m.date && m.date.startsWith(year.toString())
InTargetYear(mt) == mt.date # NoDate /\ mt.date.year = TargetYear

\* The list the generator passes to generateStats: the fixed matches of the
\* target year, in the order the scraper returned them.
CurrentYearSingles(ms) == SelectSeq(ms, InTargetYear)

FoldState ==
  [stats |-> stats, currentWinStreak |-> currentWinStreak,
   currentLossStreak |-> currentLossStreak]

FoldAssign(g) ==
  /\ stats' = g.stats
  /\ currentWinStreak' = g.currentWinStreak
  /\ currentLossStreak' = g.currentLossStreak
  /\ folded' = folded + 1
  /\ UNCHANGED <<matches, type, spc, notStats>>

StatsInit ==
  /\ matches \in { CurrentYearSingles(l) : l \in MatchListsUpTo(MaxMatches) }
  /\ type \in {"singles", "doubles"}
  /\ folded = 0
  /\ stats = FoldStart.stats
  /\ currentWinStreak = FoldStart.currentWinStreak
  /\ currentLossStreak = FoldStart.currentLossStreak
  /\ spc = "forEach"

\* The callback of matches.forEach on a walkover.
SkipWalkover ==
  /\ spc = "forEach" /\ folded < Len(matches)
  /\ matches[folded + 1].isWalkover
  /\ FoldAssign(CountWalkover(FoldState))

\* The callback of matches.forEach on any other match.
FoldMatch ==
  /\ spc = "forEach" /\ folded < Len(matches)
  /\ ~matches[folded + 1].isWalkover
  /\ FoldAssign(CountMatch(FoldState, matches[folded + 1], type, PlayerName))

\* generateStats from the end of the forEach to "return stats".
ReturnStats ==
  /\ spc = "forEach" /\ folded = Len(matches)
  /\ stats' = FinishedStats(stats, matches, type)
  /\ spc' = "returned"
  /\ UNCHANGED <<matches, type, folded, currentWinStreak, currentLossStreak, notStats>>

\* recomputeStats on the stored singles result.
Recompute ==
  /\ spc = "returned" /\ type = "singles"
  /\ stats' = RecomputeStats(stats)
  /\ spc' = "recomputed"
  /\ UNCHANGED <<matches, type, folded, currentWinStreak, currentLossStreak, notStats>>

StatsNext ==
  \/ SkipWalkover
  \/ FoldMatch
  \/ ReturnStats
  \/ Recompute

StatsIdle ==
  /\ matches = <<>> /\ type = "singles" /\ folded = 0 /\ stats = InitialStats
  /\ currentWinStreak = 0 /\ currentLossStreak = 0 /\ spc = "idle"

----------------------------------------------------------------------------
(* The callout ranking on its own: the per-opponent table the callouts are *)
(* computed from is drawn from a set of tables, and board holds the table  *)
(* and the three callouts, the part of stats (for generateStats) or of the *)
(* stored singles object (for recomputeStats) that the ranking reads and   *)
(* writes.                                                                 *)

\* Most entries of an enumerated table.
MaxOpponents == 2

RivalNames == <<"Ann", "Bea", "Cy", "Dee">>

PlayedCounts == 1..4

\* <<gamesWon, gamesLost>> of an entry.
GameTotals == { <<0, 0>>, <<12, 8>>, <<8, 12>>, <<16, 24>>, <<12, 12>> }

\* The entries an opponent can have after the fold: every match played is
\* a win or a loss.
EntriesNamed(name) ==
  { [name |-> name, played |-> pw[1], wins |-> pw[2], losses |-> pw[1] - pw[2],
     gamesWon |-> gt[1], gamesLost |-> gt[2], setsWon |-> 0, setsLost |-> 0,
     utr |-> 500, id |-> 0] :
      pw \in {x \in PlayedCounts \X (0..4) : x[2] <= x[1]}, gt \in GameTotals }

RECURSIVE TablesUpTo(_)
TablesUpTo(n) ==
  IF n = 0 THEN {<<>>}
  ELSE LET shorter == TablesUpTo(n - 1)
       IN shorter \cup
          {Append(t, e) : t \in {u \in shorter : Len(u) = n - 1},
                          e \in EntriesNamed(RivalNames[n])}

\* A callout left in a stored review by an earlier computation.
StaleCallout ==
  [name |-> "Zed", record |-> <<0, 2>>, gamesRecord |-> <<8, 12>>, utr |-> 500]

BoardOf(kind, tbl, before) ==
  [opponents |-> IF kind = "doubles" THEN <<>> ELSE tbl,
   teams |-> IF kind = "doubles" THEN tbl ELSE <<>>,
   partners |-> <<>>,
   nemesis |-> before, dominatedOpponent |-> before, closestRival |-> before,
   mostFrequentPartner |-> NullObj]

RankInit ==
  /\ \E tbl \in TablesUpTo(MaxOpponents) :
       \/ rpc = "singles" /\ board = BoardOf("singles", tbl, NullObj)
       \/ rpc = "doubles" /\ board = BoardOf("doubles", tbl, NullObj)
       \/ \E before \in {NullObj, StaleCallout} :
            rpc = "stored" /\ board = BoardOf("stored", tbl, before)

\* The singles callout block of generateStats.
RankSingles ==
  /\ rpc = "singles"
  /\ board' = SinglesCallouts(board)
  /\ rpc' = "ranked singles"
  /\ UNCHANGED notRank

\* The doubles callout block of generateStats.
RankDoubles ==
  /\ rpc = "doubles"
  /\ board' = DoublesCallouts(board)
  /\ rpc' = "ranked doubles"
  /\ UNCHANGED notRank

\* The callout block of recomputeStats.
RankStored ==
  /\ rpc = "stored"
  /\ board' = RecomputeCallouts(board)
  /\ rpc' = "ranked stored"
  /\ UNCHANGED notRank

RankNext ==
  \/ RankSingles
  \/ RankDoubles
  \/ RankStored

RankIdle ==
  /\ board = BoardOf("singles", <<>>, NullObj) /\ rpc = "idle"

----------------------------------------------------------------------------
(* The Lambda handler: concurrent POST requests for one profileId.  Every  *)
(* await of mainHandler on DynamoDB or on the scrape is one step of the    *)
(* request, and a DynamoDB call either answers or throws.                  *)

\* Most concurrent requests.
MaxRequests == 3

Requests == 1..MaxRequests

\* item.status, "none" without an item
ItemStatuses == {"none", "pending", "completed", "failed"}

LambdaInit ==
  /\ item \in ItemStatuses
  /\ legacyItem \in BOOLEAN
  /\ hpc = [r \in Requests |-> "get"]
  /\ response = [r \in Requests |-> "none"]
  /\ pendingBy = 0

\* return corsResponse(...)
Respond(r, what) ==
  /\ hpc' = [hpc EXCEPT ![r] = "returned"]
  /\ response' = [response EXCEPT ![r] = what]

Goto(r, where) ==
  /\ hpc' = [hpc EXCEPT ![r] = where]
  /\ UNCHANGED response

\* GetCommand answers: a completed item is returned, a pending one gives
\* the "being processed" response, a failed one falls through to the put
\* ("will retry"), and without an item the scan follows.
GetItem(r) ==
  /\ hpc[r] = "get"
  /\ IF item = "completed" THEN Respond(r, "cached data")
     ELSE IF item = "pending" THEN Respond(r, "being processed")
     ELSE IF item = "failed" THEN Goto(r, "put pending")
     ELSE Goto(r, "scan")
  /\ UNCHANGED <<item, legacyItem, pendingBy, notLambda>>

\* ScanCommand answers: a completed item of the profile with data is
\* returned.
Scan(r) ==
  /\ hpc[r] = "scan"
  /\ IF legacyItem \/ item = "completed"
     THEN Respond(r, "cached data")
     ELSE Goto(r, "put pending")
  /\ UNCHANGED <<item, legacyItem, pendingBy, notLambda>>

\* GetCommand or ScanCommand throws: "Continue to try creating new record".
CheckThrows(r) ==
  /\ hpc[r] \in {"get", "scan"}
  /\ Goto(r, "put pending")
  /\ UNCHANGED <<item, legacyItem, pendingBy, notLambda>>

\* The conditional PutCommand creates the pending item.
PutPending(r) ==
  /\ hpc[r] = "put pending" /\ item = "none"
  /\ item' = "pending"
  /\ pendingBy' = r
  /\ Goto(r, "scrape")
  /\ UNCHANGED <<legacyItem, notLambda>>

\* ConditionalCheckFailedException: the item exists.
PutRefused(r) ==
  /\ hpc[r] = "put pending" /\ item # "none"
  /\ Respond(r, "being processed")
  /\ UNCHANGED <<item, legacyItem, pendingBy, notLambda>>

\* The PutCommand throws another error: "Continue anyway - worst case we
\* process twice".
PutThrows(r) ==
  /\ hpc[r] = "put pending"
  /\ Goto(r, "scrape")
  /\ UNCHANGED <<item, legacyItem, pendingBy, notLambda>>

\* performScrapeAndUpload up to its last PutCommand, which stores the
\* completed or the failed item, or throws and is logged.
Scrape(r) ==
  /\ hpc[r] = "scrape"
  /\ \E outcome \in {"completed", "failed", "not stored"} :
       item' = IF outcome = "not stored" THEN item ELSE outcome
  /\ Goto(r, "get result")
  /\ UNCHANGED <<legacyItem, pendingBy, notLambda>>

\* performScrapeAndUpload throws: the handler marks the item failed.
ScrapeThrows(r) ==
  /\ hpc[r] = "scrape"
  /\ \E stored \in BOOLEAN : item' = IF stored THEN "failed" ELSE item
  /\ Respond(r, "failed to generate")
  /\ UNCHANGED <<legacyItem, pendingBy, notLambda>>

\* "Fetch the completed data from DynamoDB"
GetResult(r) ==
  /\ hpc[r] = "get result"
  /\ Respond(r, IF item = "completed" THEN "generated data" ELSE "result not found")
  /\ UNCHANGED <<item, legacyItem, pendingBy, notLambda>>

\* The GetCommand of the result throws into the catch of the scrape.
GetResultThrows(r) ==
  /\ hpc[r] = "get result"
  /\ \E stored \in BOOLEAN : item' = IF stored THEN "failed" ELSE item
  /\ Respond(r, "failed to generate")
  /\ UNCHANGED <<legacyItem, pendingBy, notLambda>>

PostRequest(r) ==
  \/ GetItem(r)
  \/ Scan(r)
  \/ CheckThrows(r)
  \/ PutPending(r)
  \/ PutRefused(r)
  \/ PutThrows(r)
  \/ Scrape(r)
  \/ ScrapeThrows(r)
  \/ GetResult(r)
  \/ GetResultThrows(r)

LambdaNext == \E r \in Requests : PostRequest(r)

LambdaIdle ==
  /\ item = "none" /\ legacyItem = FALSE
  /\ hpc = [r \in Requests |-> "idle"]
  /\ response = [r \in Requests |-> "none"]
  /\ pendingBy = 0

----------------------------------------------------------------------------
(* Specifications *)

InitDecode == DecInit /\ FixIdle /\ StatsIdle /\ RankIdle /\ LambdaIdle

SpecDecode == InitDecode /\ [][DecNext]_vars

\* The decoder is straight-line code around one loop: it runs while it can.
InitDecodeRuns == DecRunsInit /\ FixIdle /\ StatsIdle /\ RankIdle /\ LambdaIdle

SpecDecodeRuns == InitDecodeRuns /\ [][DecNext]_vars /\ WF_vars(DecNext)

InitFix == FixInit /\ DecIdle /\ StatsIdle /\ RankIdle /\ LambdaIdle

SpecFix == InitFix /\ [][FixNext]_vars

InitStats == StatsInit /\ DecIdle /\ FixIdle /\ RankIdle /\ LambdaIdle

SpecStats == InitStats /\ [][StatsNext]_vars

InitRank == RankInit /\ DecIdle /\ FixIdle /\ StatsIdle /\ LambdaIdle

SpecRank == InitRank /\ [][RankNext]_vars

InitLambda == LambdaInit /\ DecIdle /\ FixIdle /\ StatsIdle /\ RankIdle

SpecLambda == InitLambda /\ [][LambdaNext]_vars

----------------------------------------------------------------------------
(* Properties of the decoder (checked under SpecDecode) *)

Returned == pc = "returned"

\* C1: whenever the decoder returns a non-empty set list, the sets tallied
\* for me plus those tallied for the opponent equal the number of sets
\* emitted, and won is true exactly when my tally is the greater.
C1_TallyCoversSets ==
  (Returned /\ sets # <<>>) =>
    /\ userSetsWon + oppSetsWon = Len(sets)
    /\ won = JsBool(userSetsWon > oppSetsWon)

\* C2: for two non-empty digit strings from which no set is emitted the
\* decoder returns won = null.
C2_ZeroSetsUnknown ==
  (Returned /\ userDigits # <<>> /\ oppDigits # <<>> /\ sets = <<>>) => won = Null

\* C5: "677" against "363" decodes to 6-3 and a tiebreak set 7-6 whose
\* sub-score holds 3 points for the loser of the tiebreak, won = true, two
\* sets to none; the final pair (7,3) is the sub-score, not a third set.
C5_Decodes677v363 ==
  (Returned /\ userDigits = <<6, 7, 7>> /\ oppDigits = <<3, 6, 3>>) =>
    /\ Len(sets) = 2
    /\ sets[1] = SetStr(6, 3)
    /\ sets[2].a = 7 /\ sets[2].b = 6 /\ sets[2].p # <<>> /\ sets[2].p[2] = 3
    /\ userSetsWon = 2 /\ oppSetsWon = 0
    /\ won = True

C5_Witness ==
  Returned /\ userDigits = <<6, 7, 7>> /\ oppDigits = <<3, 6, 3>> /\ Len(sets) = 2

\* C6: "56110" against "7106" decodes to 5-7, 6-1 and a super tiebreak won
\* by me 10-6, formed from the digits after the (1,0) pair; won = true.
C6_Decodes56110v7106 ==
  (Returned /\ userDigits = <<5, 6, 1, 1, 0>> /\ oppDigits = <<7, 1, 0, 6>>) =>
    /\ sets = <<SetStr(5, 7), SetStr(6, 1), SetStrParen(1, 0, 10, 6)>>
    /\ won = True

C6_Witness ==
  /\ Returned /\ userDigits = <<5, 6, 1, 1, 0>> /\ oppDigits = <<7, 1, 0, 6>>
  /\ Len(sets) = 3 /\ i = 2

\* The score of a super tiebreak the decoder emitted with one: the
\* parenthesised score of "1-0(x-y)" / "0-1(x-y)", or the two numbers of an
\* un-indicated one ("10-6").
HasSuperTiebreakScore(s) ==
  \/ (s.p # <<>> /\ s.a \in {0, 1} /\ s.b \in {0, 1})
  \/ (s.p = <<>> /\ (s.a >= 10 \/ s.b >= 10))

SuperTiebreakScoreOf(s) == IF s.p # <<>> THEN s.p ELSE <<s.a, s.b>>

Margin(sc) == IF sc[1] >= sc[2] THEN sc[1] - sc[2] ELSE sc[2] - sc[1]

\* C7: every super tiebreak emitted with a score has a side at 10 or more
\* and a margin of at least 2.
C7_SuperTiebreakScoreValid ==
  \A k \in 1..Len(sets) :
    HasSuperTiebreakScore(sets[k]) =>
      LET sc == SuperTiebreakScoreOf(sets[k])
      IN (sc[1] >= 10 \/ sc[2] >= 10) /\ Margin(sc) >= 2

----------------------------------------------------------------------------
(* Properties of the normalizer (checked under SpecFix) *)

Fixed == fpc = "fixed"

\* C3: a non-walkover match with a non-empty set list has won equal to
\* (sets I won > sets the opponent won) counted over that list, whatever
\* the scraper's hint.
C3_WonFromSetCount ==
  (Fixed /\ ~fixedMatch.isWalkover /\ fixedMatch.sets # <<>>) =>
    LET cnt == CountSets(fixedMatch.sets, HasSuperTiebreak(fixedMatch.sets))
    IN fixedMatch.won = JsBool(cnt[1] > cnt[2])

\* C4: when the decoder's result for a non-walkover fragment is unknown and
\* no set list is left, the match records the scraper's hint if there is
\* one and won = unknown otherwise.
C4_UnknownFallsBackToHint ==
  (/\ Fixed /\ ~fixedMatch.isWalkover
   /\ ParseScores(m.scores[1], m.scores[2]).won = Null
   /\ fixedMatch.sets = <<>>) =>
    fixedMatch.won = (IF m.won # Undefined THEN m.won ELSE Null)

----------------------------------------------------------------------------
(* Properties of the callout ranking (checked under SpecRank) *)

Ranked == rpc \in {"ranked singles", "ranked doubles", "ranked stored"}

\* The table the ranking read.
RankedTable == IF rpc = "ranked doubles" THEN board.teams ELSE board.opponents

NetLosses(e) == e.losses - e.wins

\* e is not behind c in the order of the nemesis: more net losses, then a
\* smaller game differential, then more matches played.
NemesisNotBehind(e, c) ==
  \/ NetLosses(e) > NetLosses(c)
  \/ NetLosses(e) = NetLosses(c) /\ GameDiff(e) < GameDiff(c)
  \/ NetLosses(e) = NetLosses(c) /\ GameDiff(e) = GameDiff(c) /\ e.played >= c.played

NemesisCandidateIndexes ==
  {j \in 1..Len(RankedTable) : RankedTable[j].played >= 2 /\ RankedTable[j].losses >= 1}

\* C8: the nemesis is null when no entry has played >= 2 and losses >= 1;
\* otherwise it is such an entry, and no other such entry has more net
\* losses, or as many and a smaller game differential, or as many, the same
\* game differential and more matches played.
C8_NemesisOrder ==
  Ranked =>
    IF NemesisCandidateIndexes = {} THEN board.nemesis = NullObj
    ELSE /\ board.nemesis # NullObj
         /\ \E j \in NemesisCandidateIndexes :
              /\ board.nemesis.name = RankedTable[j].name
              /\ board.nemesis.record = <<RankedTable[j].wins, RankedTable[j].losses>>
              /\ \A c \in NemesisCandidateIndexes :
                   NemesisNotBehind(RankedTable[j], RankedTable[c])

\* Two candidates tied on net record and game differential, the second in
\* the table having played more, and the second is the nemesis.
C8_Witness ==
  /\ rpc \in {"ranked singles", "ranked stored"}
  /\ NemesisCandidateIndexes = {1, 2}
  /\ NetLosses(RankedTable[1]) = NetLosses(RankedTable[2])
  /\ GameDiff(RankedTable[1]) = GameDiff(RankedTable[2])
  /\ RankedTable[2].played > RankedTable[1].played
  /\ board.nemesis # NullObj
  /\ board.nemesis.name = RankedTable[2].name

----------------------------------------------------------------------------
(* Properties of generateStats and recomputeStats (checked under SpecStats) *)

StatsReturned == spc \in {"returned", "recomputed"}

\* The table the closest rival is taken from.
RivalTable == IF type = "doubles" THEN stats.teams ELSE stats.opponents

MetTwice == {j \in 1..Len(RivalTable) : RivalTable[j].played >= 2}

\* C9: the closest rival returned by generateStats (singles and doubles)
\* and by recomputeStats is null exactly when no entry of the table has
\* played >= 2, and otherwise is an entry with played >= 2.
C9_RivalMetTwice ==
  StatsReturned =>
    IF MetTwice = {} THEN stats.closestRival = NullObj
    ELSE /\ stats.closestRival # NullObj
         /\ \E j \in MetTwice : stats.closestRival.name = RivalTable[j].name

\* A closest rival was chosen although an opponent met once has the closer
\* games.
C9_Witness ==
  /\ StatsReturned
  /\ stats.closestRival # NullObj
  /\ \E j \in 1..Len(RivalTable), c \in MetTwice :
       /\ RivalTable[j].played = 1
       /\ stats.closestRival.name = RivalTable[c].name
       /\ GameDiffPctCompare(RivalTable[j], RivalTable[c]) < 0

\* C10: generateStats of an empty match list returns every counter at 0,
\* an empty opponent table and null callouts, best and worst win and month.
C10_EmptySeason ==
  (spc = "returned" /\ matches = <<>>) =>
    /\ stats.record = [wins |-> 0, losses |-> 0, walkovers |-> 0, winPct |-> 0]
    /\ stats.vsHigherRated = [wins |-> 0, losses |-> 0]
    /\ stats.vsLowerRated = [wins |-> 0, losses |-> 0]
    /\ stats.longestWinStreak = 0 /\ stats.longestLossStreak = 0
    /\ stats.bagels = [given |-> 0, received |-> 0]
    /\ stats.breadsticks = [given |-> 0, received |-> 0]
    /\ stats.tiebreaks = [won |-> 0, lost |-> 0]
    /\ stats.superTiebreaks = [won |-> 0, lost |-> 0]
    /\ stats.setsRecord = [won |-> 0, lost |-> 0]
    /\ stats.gamesRecord = [won |-> 0, lost |-> 0, winPct |-> 0]
    /\ stats.decidingSets = [won |-> 0, lost |-> 0]
    /\ stats.gamesDifferential = [wonWithFewer |-> 0, lostWithMore |-> 0]
    /\ stats.comebacks = [won |-> 0, lost |-> 0]
    /\ stats.opponents = <<>> /\ stats.teams = <<>> /\ stats.matches = <<>>
    /\ stats.monthlyBreakdown = <<>>
    /\ stats.nemesis = NullObj /\ stats.dominatedOpponent = NullObj
    /\ stats.closestRival = NullObj
    /\ stats.bestWin = NullObj /\ stats.worstLoss = NullObj
    /\ stats.bestMonth = NullObj /\ stats.worstMonth = NullObj

C10_Witness == spc = "returned" /\ matches = <<>> /\ folded = 0 /\ stats # InitialStats

----------------------------------------------------------------------------
(* The games-differential counters *)

\* The match the next call of the forEach callback receives.
NextMatch == matches[folded + 1]

\* A call of the callback of matches.forEach.
FoldsOne == spc = "forEach" /\ folded' = folded + 1

WonGames(mt) == CalculateGamesFromSets(mt.sets)[1]

LostGames(mt) == CalculateGamesFromSets(mt.sets)[2]

WonWithFewerGames(mt) ==
  ~mt.isWalkover /\ mt.won = True /\ WonGames(mt) < LostGames(mt)

LostWithMoreGames(mt) ==
  ~mt.isWalkover /\ mt.won = False /\ WonGames(mt) > LostGames(mt)

OneIf(b) == IF b THEN 1 ELSE 0

\* C11: folding one match never lowers wonWithFewer or lostWithMore and
\* raises at most one of them, by exactly 1: wonWithFewer when the match is
\* won with fewer games won than lost, lostWithMore when it is lost with
\* more games won than lost; so the counters of a list are the sums of the
\* counters of its parts.  recomputeStats counts the same way over the
\* stored matches.
C11_AnomalyCountersAdditive ==
  [][/\ FoldsOne =>
          /\ stats'.gamesDifferential.wonWithFewer =
                stats.gamesDifferential.wonWithFewer + OneIf(WonWithFewerGames(NextMatch))
          /\ stats'.gamesDifferential.lostWithMore =
                stats.gamesDifferential.lostWithMore + OneIf(LostWithMoreGames(NextMatch))
          /\ ~(WonWithFewerGames(NextMatch) /\ LostWithMoreGames(NextMatch))
     /\ spc' = "recomputed" /\ spc = "returned" =>
          /\ stats'.gamesDifferential.wonWithFewer =
                Cardinality({j \in 1..Len(stats'.matches) :
                               WonWithFewerGames(stats'.matches[j])})
          /\ stats'.gamesDifferential.lostWithMore =
                Cardinality({j \in 1..Len(stats'.matches) :
                               LostWithMoreGames(stats'.matches[j])})]_vars

\* Both counters raised in one season, the stored result recomputed.
C11_Witness ==
  /\ spc = "recomputed"
  /\ stats.gamesDifferential.wonWithFewer >= 1
  /\ stats.gamesDifferential.lostWithMore >= 1

----------------------------------------------------------------------------
(* The order of the matches *)

\* C12: the list passed to generateStats is in ascending date order.
C12_AscendingDates ==
  spc = "forEach" =>
    \A j, h \in 1..Len(matches) :
       j < h => matches[j].date.month <= matches[h].date.month

----------------------------------------------------------------------------
(* The callouts and the order of the table *)

\* The orders in which the entries of a table can have been created.
Reorderings(tbl) ==
  { [j \in 1..Len(tbl) |-> tbl[f[j]]] :
      f \in { g \in [1..Len(tbl) -> 1..Len(tbl)] :
                \A x, y \in 1..Len(tbl) : x # y => g[x] # g[y] } }

CalloutsOf(st) ==
  <<st.nemesis, st.dominatedOpponent, st.closestRival>>

\* C13: the nemesis, the dominated opponent and the closest rival of the
\* singles branch are the same for every order of the same per-opponent
\* entries.
C13_CalloutsIgnoreEncounterOrder ==
  rpc = "ranked singles" =>
    \A tbl \in Reorderings(board.opponents) :
       CalloutsOf(SinglesCallouts(BoardOf("singles", tbl, NullObj))) = CalloutsOf(board)

----------------------------------------------------------------------------
(* The closest rival *)

\* x is not after y in the order: smaller |gamesWon - gamesLost| divided by
\* gamesWon + gamesLost (0 without games), then smaller |wins - losses|,
\* then more matches played.
RatioNotBehind(x, y) ==
  LET xTotal == x.gamesWon + x.gamesLost
      yTotal == y.gamesWon + y.gamesLost
      xNum == IF xTotal > 0 THEN Abs(x.gamesWon - x.gamesLost) ELSE 0
      yNum == IF yTotal > 0 THEN Abs(y.gamesWon - y.gamesLost) ELSE 0
      xDen == IF xTotal > 0 THEN xTotal ELSE 1
      yDen == IF yTotal > 0 THEN yTotal ELSE 1
  IN \/ xNum * yDen < yNum * xDen
     \/ /\ xNum * yDen = yNum * xDen
        /\ \/ Abs(x.wins - x.losses) < Abs(y.wins - y.losses)
           \/ /\ Abs(x.wins - x.losses) = Abs(y.wins - y.losses)
              /\ x.played >= y.played

\* The closest rival of the table is null when no entry has played twice,
\* and else names an entry that has and is behind no other that has.
ClosestByRatio(tbl, rival) ==
  IF \A j \in 1..Len(tbl) : tbl[j].played < 2
  THEN rival = NullObj
  ELSE \E j \in 1..Len(tbl) :
         /\ tbl[j].played >= 2
         /\ rival.name = tbl[j].name
         /\ \A h \in 1..Len(tbl) :
               tbl[h].played >= 2 => RatioNotBehind(tbl[j], tbl[h])

\* C14: for the opponents of singles and for the teams of doubles, the
\* closest rival is the entry with played >= 2 that is first by smallest
\* |gamesWon - gamesLost| / (gamesWon + gamesLost), then smallest
\* |wins - losses|, then most matches played.
C14_ClosestRivalByRatio ==
  /\ rpc = "ranked singles" => ClosestByRatio(board.opponents, board.closestRival)
  /\ rpc = "ranked doubles" => ClosestByRatio(board.teams, board.closestRival)

----------------------------------------------------------------------------
(* Duplicate scrapes *)

\* C15: of the concurrent POST requests for one profile, at most one runs
\* the scrape at any time; the others have returned or will return without
\* starting one.
C15_OneScrapeAtATime ==
  Cardinality({r \in Requests : hpc[r] = "scrape"}) <= 1

----------------------------------------------------------------------------
(* The per-opponent table *)

\* The matches folded so far that are counted against an opponent.
CountedMatches == {j \in 1..folded : ~matches[j].isWalkover}

\* C16: in singles, the entries of the per-opponent table are the opponent
\* identities: every counted match is in the one entry of its opponentId,
\* and an entry holds the matches of its opponentId only.
C16_OneEntryPerOpponentId ==
  spc = "forEach" /\ type = "singles" =>
    /\ \A j \in CountedMatches :
          \E x \in 1..Len(stats.opponents) :
             stats.opponents[x].id = matches[j].opponentId
    /\ \A x, y \in 1..Len(stats.opponents) :
          x # y => stats.opponents[x].id # stats.opponents[y].id
    /\ \A x \in 1..Len(stats.opponents) :
          stats.opponents[x].played =
            Cardinality({j \in CountedMatches :
                           matches[j].opponentId = stats.opponents[x].id})

----------------------------------------------------------------------------
(* The decoder: super tiebreaks and tiebreaks *)

\* A set the decoder emits for a super tiebreak: "1-0" or "0-1", with or
\* without the score, or the un-indicated score itself.
IsSuperTiebreakOutcome(s) ==
  \/ (s.a = 1 /\ s.b = 0) \/ (s.a = 0 /\ s.b = 1)
  \/ s.a >= 10 \/ s.b >= 10

\* C17: the decoded set list holds at most one super tiebreak, as its last
\* element, and after emitting it the decoder is out of the loop.
C17_SuperTiebreakIsLast ==
  /\ \A j \in 1..(Len(sets) - 1) : ~IsSuperTiebreakOutcome(sets[j])
  /\ Len(sets) > 0 /\ IsSuperTiebreakOutcome(sets[Len(sets)]) =>
        pc \in {"break", "returned"}

\* A set list returned with an un-indicated super tiebreak after a set, and
\* digits left unread.
C17_Witness ==
  /\ pc = "returned"
  /\ Len(sets) = 2
  /\ sets[2].a >= 10 \/ sets[2].b >= 10
  /\ i < Len(userDigits)

\* C18: from a tiebreak pair (7,6) or (6,7), a next pair present in both
\* strings with both digits in 0..7 is consumed as the sub-score and the
\* scan resumes two pairs on, whether or not more pairs follow; otherwise
\* the bare tiebreak is emitted and the scan advances by one pair.
C18_TiebreakSubScore ==
  [][InLoop /\ IsTiebreakPair(At(userDigits, i), At(oppDigits, i)) =>
       IF /\ i + 1 < Len(userDigits) /\ i + 1 < Len(oppDigits)
          /\ At(userDigits, i + 1) \in 0..7 /\ At(oppDigits, i + 1) \in 0..7
       THEN /\ sets' = Append(sets, SetStrParen(At(userDigits, i), At(oppDigits, i),
                                                At(userDigits, i + 1), At(oppDigits, i + 1)))
            /\ i' = i + 2
       ELSE /\ sets' = Append(sets, SetStr(At(userDigits, i), At(oppDigits, i)))
            /\ i' = i + 1]_vars

\* A tiebreak whose sub-score is the last pair of both strings.
C18_Witness ==
  /\ pc = "returned"
  /\ Len(sets) = 1 /\ sets[1].p # <<>> /\ sets[1].a \in {6, 7}
  /\ Len(userDigits) = 2 /\ Len(oppDigits) = 2

----------------------------------------------------------------------------
(* Streaks *)

HasKnownResult(mt) == ~mt.isWalkover /\ mt.won \in {True, False}

\* The results of the matches folded so far, walkovers and matches without
\* a result deleted.  (Every match fixMatchData returns has a result, so
\* the walkovers are what is deleted here.)
KnownResults ==
  LET known == SelectSeq(SubSeq(matches, 1, folded), HasKnownResult)
  IN [j \in 1..Len(known) |-> known[j].won]

\* The lengths of the runs of v in seq, and 0.
RunLengths(seq, v) ==
  {0} \cup { n \in 1..Len(seq) :
               \E a \in 1..(Len(seq) - n + 1) :
                  \A x \in a..(a + n - 1) : seq[x] = v }

LongestRun(seq, v) ==
  CHOOSE n \in RunLengths(seq, v) : \A h \in RunLengths(seq, v) : h <= n

\* The length of the run of v that ends seq.
EndingRun(seq, v) ==
  CHOOSE n \in 0..Len(seq) :
    /\ \A x \in (Len(seq) - n + 1)..Len(seq) : seq[x] = v
    /\ n < Len(seq) => seq[Len(seq) - n] # v

\* C19: after folding any matches, longestWinStreak is the longest run of
\* consecutive wins, and longestLossStreak of losses, among the results
\* with walkovers and unknown results deleted; the current streaks are the
\* runs that end the results, so a loss resets the win streak, a win the
\* loss streak, and the two are never both positive; a match without a
\* result would leave the record and the streaks as they are.
C19_StreaksSkipWalkovers ==
  spc \in {"forEach", "returned"} =>
    /\ stats.longestWinStreak = LongestRun(KnownResults, True)
    /\ stats.longestLossStreak = LongestRun(KnownResults, False)
    /\ currentWinStreak = EndingRun(KnownResults, True)
    /\ currentLossStreak = EndingRun(KnownResults, False)
    /\ ~(currentWinStreak > 0 /\ currentLossStreak > 0)
    /\ \A res \in {Null, Undefined} : CountRecord(FoldState, res) = FoldState

\* Two wins around a walkover make a streak of two.
C19_Witness ==
  /\ spc = "returned"
  /\ Len(matches) = 3
  /\ matches[2].isWalkover
  /\ stats.longestWinStreak = 2

----------------------------------------------------------------------------
(* The deciding-set record *)

\* The sets of the match before its final set, as the set analysis counts
\* them.
BeforeFinalSet(mt) == AnalyseSets(NoSets, SubSeq(mt.sets, 1, Len(mt.sets) - 1))

FinalSetIsSuperTiebreak(mt) ==
  AnalyseSet(NoSets, mt.sets[Len(mt.sets)]).hasSuperTiebreak

\* Both sides had won a set before the final set, or the final set is a
\* super tiebreak.
WentToDecider(mt) ==
  /\ ~mt.isWalkover /\ mt.sets # <<>>
  /\ \/ BeforeFinalSet(mt).setsWon >= 1 /\ BeforeFinalSet(mt).setsLost >= 1
     \/ FinalSetIsSuperTiebreak(mt)

\* C20: the deciding-set record counts, as won or lost with the match, the
\* matches in which both sides had won a set before the final set or whose
\* final set is a super tiebreak, and no other match.
C20_DecidingSetRecord ==
  spc = "forEach" =>
    /\ stats.decidingSets.won =
          Cardinality({j \in 1..folded :
                         WentToDecider(matches[j]) /\ matches[j].won = True})
    /\ stats.decidingSets.lost =
          Cardinality({j \in 1..folded :
                         WentToDecider(matches[j]) /\ matches[j].won = False})

(***************************************************************************)
(* Comebacks and chokes *)
(***************************************************************************)
\* The matches of the folded list whose first set can be inspected.
WithFirstSet == {j \in 1..Len(matches) : ~matches[j].isWalkover /\ matches[j].sets # <<>>}

LostFirstSet(mt) == mt.sets[1].a < mt.sets[1].b

\* C21: for the non-walkover matches with a non-empty set list, the comeback
\* counter is the number of those won after losing the first set and the
\* choke counter the number of those lost after winning the first set,
\* whatever the kind of the first set and the number of sets.
C21_ComebacksFromFirstSet ==
  spc = "returned" =>
    /\ stats.comebacks.won =
         Cardinality({j \in WithFirstSet :
                        matches[j].won = True /\ LostFirstSet(matches[j])})
    /\ stats.comebacks.lost =
         Cardinality({j \in WithFirstSet :
                        matches[j].won = False /\ WonFirstSet(matches[j])})

(***************************************************************************)
(* The best and the worst month *)
(***************************************************************************)
\* C22: bestMonth has the highest win percentage of the months with a
\* decided match and, among the months sharing it, no other has more matches
\* played; worstMonth likewise for the lowest win percentage; whatever the
\* order in which the months first appear.
C22_MonthTiesByMatchesPlayed ==
  (spc = "returned" /\ stats.bestMonth # NullObj) =>
    \A k \in 1..Len(stats.monthlyBreakdown) :
      LET mo == stats.monthlyBreakdown[k]
      IN /\ mo.total > 0
         /\ \/ mo.winPct < stats.bestMonth.winPct
            \/ mo.winPct = stats.bestMonth.winPct /\ mo.total <= stats.bestMonth.total
         /\ \/ mo.winPct > stats.worstMonth.winPct
            \/ mo.winPct = stats.worstMonth.winPct /\ mo.total <= stats.worstMonth.total

(***************************************************************************)
(* Game totals and super tiebreaks *)
(***************************************************************************)
\* <<games for me, games for the opponent>> over the sets of ss that are
\* not super tiebreaks.
RECURSIVE SetGames(_)
SetGames(ss) ==
  IF ss = <<>> THEN <<0, 0>>
  ELSE LET rest == SetGames(Tail(ss))
           s == Head(ss)
       IN IF IsSuperTiebreakOutcome(s) THEN rest
          ELSE <<s.a + rest[1], s.b + rest[2]>>

\* The games of the entry of the opponent called name: none before the
\* first match against the name.
EntryGames(tbl, name) ==
  IF HasKey(tbl, name)
  THEN <<tbl[IndexOf(tbl, name)].gamesWon, tbl[IndexOf(tbl, name)].gamesLost>>
  ELSE <<0, 0>>

\* C23: folding a match adds to the games of the overall record, and of the
\* opponent's entry, the two game counts of each of its regular and tiebreak
\* sets and nothing for a super tiebreak, scored or not, indicated or not; a
\* super tiebreak adds exactly 1 to the sets of its winner and no games; and
\* calculateGamesFromSets finds the same game totals for the match.
C23_SuperTiebreaksAddNoGames ==
  [][(FoldsOne /\ ~NextMatch.isWalkover) =>
       LET mt == NextMatch
           games == SetGames(mt.sets)
       IN /\ stats'.gamesRecord.won = stats.gamesRecord.won + games[1]
          /\ stats'.gamesRecord.lost = stats.gamesRecord.lost + games[2]
          /\ type = "singles" =>
                /\ EntryGames(stats'.opponents, mt.opponent)[1] =
                      EntryGames(stats.opponents, mt.opponent)[1] + games[1]
                /\ EntryGames(stats'.opponents, mt.opponent)[2] =
                      EntryGames(stats.opponents, mt.opponent)[2] + games[2]
          /\ CalculateGamesFromSets(mt.sets) = games
          /\ \A k \in 1..Len(mt.sets) :
               LET s == mt.sets[k]
                   t == AnalyseSet(NoSets, s)
               IN IF IsSuperTiebreakOutcome(s)
                  THEN /\ t.matchGamesWon = 0 /\ t.matchGamesLost = 0
                       /\ t.setsWon = OneIf(s.a > s.b)
                       /\ t.setsLost = OneIf(s.b > s.a)
                  ELSE t.matchGamesWon = s.a /\ t.matchGamesLost = s.b]_vars

(***************************************************************************)
(* Dates that cannot be resolved *)
(***************************************************************************)
\* A date text that is YYYY-MM-DD, or a month abbreviation followed by a day.
ResolvesToCalendarDate(raw) ==
  raw # NoDate /\ (raw.iso \/ \E k \in 1..12 : MonthNames[k] = raw.letters)

\* C24: a match whose date text is neither YYYY-MM-DD nor a recognised month
\* abbreviation followed by a day is never folded by generateStats, so it is
\* counted neither in the record nor in a month.
C24_UnresolvedDatesExcluded ==
  \A j \in 1..folded : ResolvesToCalendarDate(matches[j].scrapedDate)

(***************************************************************************)
(* Failed records *)
(***************************************************************************)
\* C25: a request that finds the stored record failed starts a new scrape:
\* its next step after the check, while the record is still failed, leads to
\* the scrape and not to a response.
C25_FailedIsRetried ==
  [][\A r \in Requests :
       (hpc[r] = "put pending" /\ item = "failed" /\ hpc'[r] # hpc[r])
         => hpc'[r] = "scrape"]_vars

(***************************************************************************)
(* The decoder's tally and the set counts of the aggregator *)
(***************************************************************************)
\* C26: for the set list the decoder returns, the set count of fixMatchData
\* and the sets won and lost that generateStats counts for the match are the
\* decoder's own tally.
C26_SetCountsAgree ==
  Returned =>
    /\ CountSets(sets, HasSuperTiebreak(sets)) = <<userSetsWon, oppSetsWon>>
    /\ AnalyseSets(NoSets, sets).setsWon = userSetsWon
    /\ AnalyseSets(NoSets, sets).setsLost = oppSetsWon

(***************************************************************************)
(* Termination of the decoder (checked under SpecDecodeRuns) *)
(***************************************************************************)
ShorterLength ==
  IF Len(userDigits) <= Len(oppDigits) THEN Len(userDigits) ELSE Len(oppDigits)

\* One iteration of the while loop.
Iterates == pc = "loop" /\ pc' \in {"loop", "break"}

\* C27: the scan ends for every pair of digit strings: each iteration of the
\* loop moves the position forward by at least one pair or leaves the loop,
\* and pushes at most one set, so the sets never outnumber the digits of the
\* shorter string.
C27_ScanTerminates ==
  /\ [][Iterates => /\ (i' >= i + 1 \/ pc' = "break")
                    /\ Len(sets') <= Len(sets) + 1]_vars
  /\ [](Len(sets) <= ShorterLength)
  /\ <>Returned

\* A scan of several iterations that emitted a set for every pair of digits.
C27_Witness ==
  Returned /\ Len(sets) >= 2 /\ Len(sets) = ShorterLength /\ i = ShorterLength

(***************************************************************************)
(* Higher and lower rated opponents *)
(***************************************************************************)
RatedWins == stats.vsHigherRated.wins + stats.vsLowerRated.wins

RatedLosses == stats.vsHigherRated.losses + stats.vsLowerRated.losses

StoredResults(st, res) ==
  {j \in 1..Len(st.matches) : ~st.matches[j].isWalkover /\ st.matches[j].won = res}

StoredResultsAgainst(st, res, name) ==
  {j \in StoredResults(st, res) : st.matches[j].opponent = name}

\* The record and the per-opponent table count the stored results.
RecordCountsResults(st) ==
  /\ st.record.wins = Cardinality(StoredResults(st, True))
  /\ st.record.losses = Cardinality(StoredResults(st, False))
  /\ \A x \in 1..Len(st.opponents) :
       /\ st.opponents[x].wins =
            Cardinality(StoredResultsAgainst(st, True, st.opponents[x].name))
       /\ st.opponents[x].losses =
            Cardinality(StoredResultsAgainst(st, False, st.opponents[x].name))

\* C29: when the record and the per-opponent table of a stored review count
\* the results of its matches, they still do after recomputeStats, also when
\* it has corrected the result of a match from its sets.
C29_RecomputeKeepsRecord ==
  [][(spc = "returned" /\ spc' = "recomputed" /\ RecordCountsResults(stats))
       => RecordCountsResults(stats')]_vars

(***************************************************************************)
(* Pending records *)
(***************************************************************************)
\* C30: once the request that created the pending item has returned, the
\* item is completed or failed, however the scrape and the writes to the
\* store went.
C30_NoPendingAfterReturn ==
  \A r \in Requests :
    (pendingBy = r /\ hpc[r] = "returned") => item \in {"completed", "failed"}

=============================================================================
